---- MODULE Spec2Model ----
(***************************************************************************)
(* A model of the analytical core of ProjSamarthProto:                     *)
(*   - normalization.py : normalize_evidence                               *)
(*   - qa_engine.py     : compare_avg_rainfall_and_top_crops,              *)
(*                        find_district_extreme, trend_and_correlation,    *)
(*                        policy_arguments_for_crop_promotion              *)
(*                                                                         *)
(* Numbers.  Scores, confidences and coverage are held in hundredths       *)
(* (0.5 is 50).  Production and rainfall are integers.  A quotient the     *)
(* code computes in floating point (a mean, a slope, a variance) is held   *)
(* as an exact fraction <<numerator, denominator>>, so that two results    *)
(* are compared by cross-multiplication and nothing is rounded away.       *)
(*                                                                         *)
(* Cells.  A pandas cell is a record [t, n, s]: a number (t = "num"), a    *)
(* missing value NaN (t = "nan") or a text (t = "str", s its characters,   *)
(* a digit as 0..9 and any other character as -1).                         *)
(***************************************************************************)
EXTENDS Integers, Sequences, FiniteSets, TLC

VARIABLES evidence_items, norm, now, args, aggregate, crops_df, rain_df, call, result

vars == <<evidence_items, norm, now, args, aggregate, crops_df, rain_df, call, result>>

----------------------------------------------------------------------------
(* Generic helpers                                                         *)

\* Python's None / an absent dict key, and a present value
None == <<>>
Some(x) == <<x>>

Min(a, b) == IF a <= b THEN a ELSE b
Max(a, b) == IF a >= b THEN a ELSE b
Abs(a) == IF a < 0 THEN -a ELSE a

Range(s) == {s[i] : i \in 1..Len(s)}

RECURSIVE SumSeq(_)
SumSeq(s) == IF s = <<>> THEN 0 ELSE Head(s) + SumSeq(Tail(s))

\* all sequences over S of length 0..n
SeqsUpTo(S, n) == UNION {[1..k -> S] : k \in 0..n}

\* sorted(set) ascending / descending, as a sequence
RECURSIVE SortAsc(_)
SortAsc(S) ==
    IF S = {} THEN <<>>
    ELSE LET m == CHOOSE x \in S : \A y \in S : x <= y
         IN <<m>> \o SortAsc(S \ {m})

RECURSIVE SortDesc(_)
SortDesc(S) ==
    IF S = {} THEN <<>>
    ELSE LET m == CHOOSE x \in S : \A y \in S : x >= y
         IN <<m>> \o SortDesc(S \ {m})

\* Python slice seq[:k] for k >= 0
Prefix(s, k) == SubSeq(s, 1, Min(k, Len(s)))

----------------------------------------------------------------------------
(* Cells of a table                                                        *)

Num(v) == [t |-> "num", n |-> v, s |-> <<>>]
NaN == [t |-> "nan", n |-> 0, s |-> <<>>]
Str(chars) == [t |-> "str", n |-> 0, s |-> chars]

IsNum(c) == c.t = "num"
IsNaN(c) == c.t = "nan"
IsStr(c) == c.t = "str"

\* value of a decimal digit string, most significant digit first
RECURSIVE DigitsValue(_)
DigitsValue(chars) ==
    IF chars = <<>> THEN 0
    ELSE 10 * DigitsValue(SubSeq(chars, 1, Len(chars) - 1)) + chars[Len(chars)]

IsDigits(chars) == chars # <<>> /\ \A i \in 1..Len(chars) : chars[i] \in 0..9

\* the hyphen-minus, the one non-digit character of the model; as in ASCII it
\* sorts before every digit
Hyphen == 0 - 1

\* a decimal integer literal: digits, or a minus sign and digits
IsIntLiteral(chars) ==
    \/ IsDigits(chars)
    \/ (chars # <<>> /\ Head(chars) = Hyphen /\ IsDigits(Tail(chars)))

IntLiteralValue(chars) ==
    IF Head(chars) = Hyphen THEN 0 - DigitsValue(Tail(chars)) ELSE DigitsValue(chars)

\* Python's str < str: lexicographic on the character codes
RECURSIVE StrLess(_, _)
StrLess(a, b) ==
    IF b = <<>> THEN FALSE
    ELSE IF a = <<>> THEN TRUE
    ELSE IF Head(a) # Head(b) THEN Head(a) < Head(b)
    ELSE StrLess(Tail(a), Tail(b))

----------------------------------------------------------------------------
(* normalization.py : normalize_evidence                                   *)
(*                                                                         *)
(* An evidence record is [id, date, score, trust, relevance]:              *)
(*   id        None (key absent) or Some(<<prefix, number>>), the text     *)
(*             prefix followed by the decimal number ("ev0" is <<"ev",0>>) *)
(*   date      [k |-> "none"], [k |-> "str"] with the text's year, month   *)
(*             and day fields in ymd, or [k |-> "dt"] with the datetime's  *)
(*             proleptic Gregorian ordinal in ord                          *)
(*   score     None or Some(hundredths)                                    *)
(*   trust     the truth value of item.get('trust')                        *)
(*   relevance None or Some(integer)                                       *)

NoDate == [k |-> "none", ymd |-> <<>>, ord |-> 0]
StrDate(ymd) == [k |-> "str", ymd |-> ymd, ord |-> 0]
DateTime(ord) == [k |-> "dt", ymd |-> <<>>, ord |-> ord]

IsLeap(y) == (y % 4 = 0 /\ y % 100 # 0) \/ y % 400 = 0

DaysInMonth(y, m) ==
    IF m = 2 THEN (IF IsLeap(y) THEN 29 ELSE 28)
    ELSE IF m \in {4, 6, 9, 11} THEN 30 ELSE 31

RECURSIVE DaysBeforeMonth(_, _)
DaysBeforeMonth(y, m) ==
    IF m <= 1 THEN 0 ELSE DaysBeforeMonth(y, m - 1) + DaysInMonth(y, m - 1)

\* datetime.toordinal(): day 1 is 0001-01-01
ToOrdinal(ymd) ==
    LET y == ymd[1] - 1
    IN 365 * y + (y \div 4) - (y \div 100) + (y \div 400)
         + DaysBeforeMonth(ymd[1], ymd[2]) + ymd[3]

\* datetime.fromisoformat accepts the text iff it names a calendar day
IsIsoDate(ymd) ==
    /\ ymd[1] \in 1..9999
    /\ ymd[2] \in 1..12
    /\ ymd[3] \in 1..DaysInMonth(ymd[1], ymd[2])

\* lines 15-20: a text date is parsed, and becomes None when it does not parse
ParseDate(d) ==
    IF d.k = "str"
    THEN (IF IsIsoDate(d.ymd) THEN DateTime(ToOrdinal(d.ymd)) ELSE NoDate)
    ELSE d

\* lines 27-32: the boost for a recent date, in hundredths
RecencyBoost(dt, today) ==
    IF dt.k = "dt"
    THEN LET days == today - dt.ord
         IN IF days < 365 THEN 20
            ELSE IF days < 365 * 5 THEN 10 ELSE 0
    ELSE 0

\* lines 34-35
TrustBoost(trust) == IF trust THEN 10 ELSE 0

\* lines 36-37: min(0.3, float(relevance)/10.0), skipped when relevance is falsy
RelevanceBoost(relevance) ==
    IF relevance = None \/ relevance = Some(0) THEN 0
    ELSE Min(30, relevance[1] * 10)

\* mutant of HeuristicScore: the score is computed anew whether or not the
\* record carries one
HeuristicScore_recomputed(item, dt, today) ==
    Min(100, 50 + RecencyBoost(dt, today) + TrustBoost(item.trust)
                + RelevanceBoost(item.relevance))

\* lines 22-39: a score that is present is kept as it is
HeuristicScore(item, dt, today) ==
    IF item.score # None THEN item.score[1]
    ELSE Min(100, 50 + RecencyBoost(dt, today) + TrustBoost(item.trust)
                     + RelevanceBoost(item.relevance))

\* lines 12-40, for the record at 0-based position i: a copy of the record
\* with id, date and score set and every other field passed through
NormalizeItem(item, i, today) ==
    LET dt == ParseDate(item.date)
    IN [item EXCEPT !.id = IF item.id = None THEN Some(<<"ev", i>>) ELSE item.id,
                    !.date = dt,
                    !.score = Some(HeuristicScore(item, dt, today))]

normalize_evidence(items, today) ==
    [i \in 1..Len(items) |-> NormalizeItem(items[i], i - 1, today)]

----------------------------------------------------------------------------
(* qa_engine.py : the tables                                               *)
(*                                                                         *)
(* A DataFrame is [cols, rows]: cols is FALSE for the column-less frame    *)
(* pd.DataFrame() that a failed load yields, rows is the sequence of its   *)
(* rows.  A production row is [state, district, crop, year, production]    *)
(* and a rainfall row is [state, year, avg_annual_rainfall]; year,         *)
(* production and avg_annual_rainfall are cells.                           *)

EmptyFrame == [cols |-> FALSE, rows |-> <<>>]
Frame(rows) == [cols |-> TRUE, rows |-> rows]

\* the crop names in the order groupby('crop') lists its groups (sorted keys)
CropNames == <<"maize", "rice", "wheat">>

\* a computed float: an exact fraction, NaN, or Python's None
Frac(n, d) == [k |-> "num", num |-> n, den |-> d]
FloatNaN == [k |-> "nan", num |-> 0, den |-> 1]
NoFloat == [k |-> "none", num |-> 0, den |-> 1]

\* what a call returns: a value, an {error: ...} object, or a raised exception
Raise(exc) == [kind |-> "raise", exc |-> exc]
ErrorResult(msg) == [kind |-> "error", error |-> msg]
NoResult == [kind |-> "none"]

\* pd.to_numeric(errors='coerce') on one cell
to_numeric(c) ==
    IF IsStr(c)
    THEN (IF IsIntLiteral(c.s) THEN Num(IntLiteralValue(c.s)) ELSE NaN)
    ELSE c

\* df['year'] = pd.to_numeric(df['year'], errors='coerce'), guarded by
\* 'year' in df.columns (lines 140-143)
CoerceYear(df) ==
    IF df.cols
    THEN [df EXCEPT !.rows = [i \in 1..Len(df.rows) |->
                                [df.rows[i] EXCEPT !.year = to_numeric(@)]]]
    ELSE df

\* df['year'].dropna().unique() of a numeric column, as a set
YearSet(rows) == {rows[i].year.n : i \in {j \in 1..Len(rows) : IsNum(rows[j].year)}}

\* df['year'].isin(years_to_use) for one cell
YearIsIn(c, years_to_use) == IsNum(c) /\ c.n \in Range(years_to_use)

\* Series.sum() / Series.mean() of a column of cells: NaN is skipped
RECURSIVE CellSum(_)
CellSum(cells) ==
    IF cells = <<>> THEN 0
    ELSE (IF IsNum(Head(cells)) THEN Head(cells).n ELSE 0) + CellSum(Tail(cells))

CellCount(cells) == Cardinality({i \in 1..Len(cells) : IsNum(cells[i])})

CellMean(cells) ==
    IF CellCount(cells) = 0 THEN FloatNaN
    ELSE Frac(CellSum(cells), CellCount(cells))

Column(rows, f) == [i \in 1..Len(rows) |-> rows[i][f]]

----------------------------------------------------------------------------
(* qa_engine.py : compare_avg_rainfall_and_top_crops (lines 134-169)       *)

\* mutant of years_to_use: the oldest years where the most recent are meant
years_to_use_oldest(rain_rows, years) == Prefix(SortAsc(YearSet(rain_rows)), years)

\* lines 145-146: the `years` most recent distinct years of the rainfall table
years_to_use(rain_rows, years) == Prefix(SortDesc(YearSet(rain_rows)), years)

\* lines 148-150
avg_rain(rain_rows, state, window) ==
    LET InSel(r) == r.state = state /\ YearIsIn(r.year, window)
        sel == SelectSeq(rain_rows, InSel)
    IN IF sel = <<>> THEN NoFloat
       ELSE CellMean(Column(sel, "avg_annual_rainfall"))

\* groupby('crop')['production'].sum(): <<crop, total>> per crop present, in
\* key order
GroupSumByCrop(rows) ==
    LET present == {rows[i].crop : i \in 1..Len(rows)}
        InGroup(cname) == LET Is(r) == r.crop = cname IN SelectSeq(rows, Is)
        Total(cname) == CellSum(Column(InGroup(cname), "production"))
        IsPresent(cname) == cname \in present
        keys == SelectSeq(CropNames, IsPresent)
    IN [i \in 1..Len(keys) |-> <<keys[i], Total(keys[i])>>]

\* mutant of SortTotalsDesc: the groups left in key order
SortTotalsDesc_unsorted(groups) == groups

\* sort_values(ascending=False): equal totals keep the order of the groups
RECURSIVE SortTotalsDesc(_)
SortTotalsDesc(groups) ==
    IF groups = <<>> THEN <<>>
    ELSE LET i == CHOOSE j \in 1..Len(groups) :
                    /\ \A m \in 1..Len(groups) : groups[j][2] >= groups[m][2]
                    /\ \A m \in 1..(j - 1) : groups[m][2] # groups[j][2]
             rest == [m \in 1..(Len(groups) - 1) |->
                        IF m < i THEN groups[m] ELSE groups[m + 1]]
         IN <<groups[i]>> \o SortTotalsDesc(rest)

\* lines 155-159
top_crops(crop_rows, state, window, top_m) ==
    LET InSel(r) == r.state = state /\ YearIsIn(r.year, window)
        csel == SelectSeq(crop_rows, InSel)
    IN Prefix(SortTotalsDesc(GroupSumByCrop(csel)), top_m)

\* the value returned, given the tables after the coercion of lines 140-143
compare_result(state_x, state_y, years, top_m, crops, rain) ==
    IF ~rain.cols THEN Raise("KeyError")
    ELSE IF ~crops.cols THEN Raise("KeyError")
    ELSE LET window == years_to_use(rain.rows, years)
         IN [kind |-> "ok",
             rainfall |-> [x |-> avg_rain(rain.rows, state_x, window),
                           y |-> avg_rain(rain.rows, state_y, window)],
             top_crops |-> [x |-> top_crops(crops.rows, state_x, window, top_m),
                            y |-> top_crops(crops.rows, state_y, window, top_m)],
             provenance |-> [rainfall_source |-> "local://data/normalized_rainfall_2018_19.csv",
                             crops_source |-> "local://data/normalized_production_2018_19.csv",
                             years_used |-> window]]

\* The call.  The year columns of the caller's frames are assigned in place
\* before anything is read, so the caller sees them coerced afterwards.
compare_avg_rainfall_and_top_crops(state_x, state_y, years, top_m) ==
    /\ crops_df' = CoerceYear(crops_df)
    /\ rain_df' = CoerceYear(rain_df)
    /\ result' = compare_result(state_x, state_y, years, top_m,
                                CoerceYear(crops_df), CoerceYear(rain_df))
    /\ UNCHANGED <<evidence_items, norm, now, args, aggregate, call>>

----------------------------------------------------------------------------
(* qa_engine.py : find_district_extreme (lines 172-191)                    *)

\* line 174: int(crops['year'].dropna().max()).  The maximum of a numeric
\* column is numeric, that of a text column is the text that sorts last and
\* int() parses it; int(nan) and int() of any other text raise ValueError,
\* and max() over numbers and texts together raises TypeError.
recent_year(rows) ==
    LET nonnull == {i \in 1..Len(rows) : ~IsNaN(rows[i].year)}
    IN IF nonnull = {} THEN Raise("ValueError")
       ELSE IF \A i \in nonnull : IsNum(rows[i].year)
       THEN [kind |-> "ok",
             year |-> CHOOSE y \in YearSet(rows) : \A z \in YearSet(rows) : z <= y]
       ELSE IF \A i \in nonnull : IsStr(rows[i].year)
       THEN LET texts == {rows[i].year.s : i \in nonnull}
                last == CHOOSE a \in texts : \A b \in texts : ~StrLess(a, b)
            IN IF IsIntLiteral(last)
               THEN [kind |-> "ok", year |-> IntLiteralValue(last)]
               ELSE Raise("ValueError")
       ELSE Raise("TypeError")

\* lines 175-176: the rows of one state with this crop and exactly this year
extreme_selection(rows, state, crop, year) ==
    LET InSel(r) == r.state = state /\ r.crop = crop /\ IsNum(r.year) /\ r.year.n = year
    IN SelectSeq(rows, InSel)

NoExtreme == [k |-> "none", district |-> "", production |-> 0, year |-> 0]

\* idxmax() / idxmin(): the first row holding the largest / smallest
\* production, NaN skipped
idxmax(sel) ==
    CHOOSE i \in 1..Len(sel) :
        /\ IsNum(sel[i].production)
        /\ \A j \in 1..Len(sel) :
              IsNum(sel[j].production) => sel[j].production.n <= sel[i].production.n
        /\ \A j \in 1..(i - 1) :
              IsNum(sel[j].production) => sel[j].production.n # sel[i].production.n

\* mutant of idxmin: the largest production where the smallest is meant
idxmin_takes_largest(sel) == idxmax(sel)

idxmin(sel) ==
    CHOOSE i \in 1..Len(sel) :
        /\ IsNum(sel[i].production)
        /\ \A j \in 1..Len(sel) :
              IsNum(sel[j].production) => sel[j].production.n >= sel[i].production.n
        /\ \A j \in 1..(i - 1) :
              IsNum(sel[j].production) => sel[j].production.n # sel[i].production.n

\* lines 178-185: None for an empty selection; a selection whose production
\* is NaN throughout has no idxmax label to look up, and the lookup raises
extreme(sel, kind) ==
    IF sel = <<>> THEN [kind |-> "ok", value |-> NoExtreme]
    ELSE IF CellCount(Column(sel, "production")) = 0 THEN Raise("KeyError")
    ELSE LET row == IF kind = "max" THEN sel[idxmax(sel)] ELSE sel[idxmin(sel)]
         IN [kind |-> "ok",
             value |-> [k |-> "row", district |-> row.district,
                        production |-> row.production.n, year |-> row.year.n]]

find_district_extreme_result(state_x, state_y, crop, crops) ==
    IF ~crops.cols THEN Raise("KeyError")
    ELSE LET ry == recent_year(crops.rows)
         IN IF ry.kind = "raise" THEN ry
            ELSE LET ex == extreme(extreme_selection(crops.rows, state_x, crop, ry.year), "max")
                     ey == extreme(extreme_selection(crops.rows, state_y, crop, ry.year), "min")
                 IN IF ex.kind = "raise" THEN ex
                    ELSE IF ey.kind = "raise" THEN ey
                    ELSE [kind |-> "ok",
                          state_x_max |-> ex.value,
                          state_y_min |-> ey.value,
                          provenance |-> [crops_source |-> "local://data/normalized_production_2018_19.csv",
                                          year |-> ry.year]]

find_district_extreme(state_x, state_y, crop) ==
    /\ result' = find_district_extreme_result(state_x, state_y, crop, crops_df)
    /\ UNCHANGED <<evidence_items, norm, now, args, aggregate, crops_df, rain_df, call>>

----------------------------------------------------------------------------
(* qa_engine.py : trend_and_correlation (lines 194-216)                    *)

\* line 201: c.groupby('year')['production'].sum().sort_index(), as
\* <<year, total>> in ascending year order (rows without a year form no group)
yearly_production(c) ==
    LET keys == SortAsc(YearSet(c))
        Total(y) == LET Is(r) == IsNum(r.year) /\ r.year.n = y
                    IN CellSum(Column(SelectSeq(c, Is), "production"))
    IN [i \in 1..Len(keys) |-> <<keys[i], Total(keys[i])>>]

\* line 202: the region's rainfall rows, indexed by year, in table order
rain_series(rain_rows, region) ==
    LET Is(r) == r.state = region IN SelectSeq(rain_rows, Is)

\* line 203: .join(r, how='left').dropna(): one row per (year of the left
\* side, rainfall row of that year), left order first and rainfall order
\* second; a year without rainfall, or with NaN rainfall, is dropped
RECURSIVE join_dropna(_, _)
join_dropna(yearly, r) ==
    IF yearly = <<>> THEN <<>>
    ELSE LET y == Head(yearly)[1]
             Match(row) == IsNum(row.year) /\ row.year.n = y
                             /\ IsNum(row.avg_annual_rainfall)
             hits == SelectSeq(r, Match)
         IN [i \in 1..Len(hits) |->
                [year |-> y, production |-> Head(yearly)[2],
                 avg_annual_rainfall |-> hits[i].avg_annual_rainfall.n]]
            \o join_dropna(Tail(yearly), r)

Products(a, b) == [i \in 1..Len(a) |-> a[i] * b[i]]

\* n*Sum(ab) - Sum(a)*Sum(b): n^2 times the covariance
ScaledCov(a, b) == Len(a) * SumSeq(Products(a, b)) - SumSeq(a) * SumSeq(b)

\* Series.corr: Pearson r = cov / sqrt(va * vb), held by its three terms;
\* NaN with fewer than 2 points or a constant series
pearson(a, b) ==
    IF Len(a) < 2 \/ ScaledCov(a, a) = 0 \/ ScaledCov(b, b) = 0
    THEN [k |-> "nan", cov |-> 0, va |-> 0, vb |-> 0]
    ELSE [k |-> "num", cov |-> ScaledCov(a, b), va |-> ScaledCov(a, a),
          vb |-> ScaledCov(b, b)]

\* np.polyfit(x, y, 1)[0]: the least-squares slope; when every x is the same
\* (one point included) the system is rank-deficient and lstsq returns the
\* minimum-norm solution, whose slope is mean(y) / (2 * x)
polyfit_slope(x, y) ==
    IF ScaledCov(x, x) = 0
    THEN (IF x[1] = 0 THEN FloatNaN ELSE Frac(SumSeq(y), 2 * Len(x) * x[1]))
    ELSE Frac(ScaledCov(x, y), ScaledCov(x, x))

trend_and_correlation_result(region, crop, years, crops, rain) ==
    IF ~crops.cols THEN Raise("KeyError")
    ELSE LET IsC(r) == r.state = region /\ r.crop = crop
             c == SelectSeq(crops.rows, IsC)
         IN IF c = <<>> THEN ErrorResult("No crop data for region")
            ELSE IF ~rain.cols THEN Raise("KeyError")
            ELSE LET df == join_dropna(yearly_production(c),
                                       rain_series(rain.rows, region))
                 IN IF df = <<>>
                    THEN ErrorResult("No overlapping rainfall data for region")
                    ELSE [kind |-> "ok",
                          trend_slope |-> polyfit_slope(Column(df, "year"),
                                                        Column(df, "production")),
                          correlation |-> pearson(Column(df, "production"),
                                                  Column(df, "avg_annual_rainfall")),
                          years |-> Column(df, "year"),
                          data |-> df,
                          provenance |-> [crops |-> "local://data/normalized_production_2018_19.csv",
                                          rain |-> "local://data/normalized_rainfall_2018_19.csv"]]

trend_and_correlation(region, crop, years) ==
    /\ result' = trend_and_correlation_result(region, crop, years, crops_df, rain_df)
    /\ UNCHANGED <<evidence_items, norm, now, args, aggregate, crops_df, rain_df, call>>

----------------------------------------------------------------------------
(* qa_engine.py : policy_arguments_for_crop_promotion (lines 219-296)      *)

\* lines 222-224: the window, and one crop's rows of the region inside it
policy_window(crop_rows, years) == Prefix(SortDesc(YearSet(crop_rows)), years)

policy_rows(crop_rows, region, crop, window) ==
    LET Is(r) == r.state = region /\ r.crop = crop /\ YearIsIn(r.year, window)
    IN SelectSeq(crop_rows, Is)

CellValues(cells) ==
    LET IsN(c) == IsNum(c)
        nums == SelectSeq(cells, IsN)
    IN [i \in 1..Len(nums) |-> nums[i].n]

\* lines 230-233: 0.0 below 2 rows; a NaN production makes the fit NaN
safe_slope(df) ==
    IF Len(df) < 2 THEN Frac(0, 1)
    ELSE IF CellCount(Column(df, "production")) < Len(df) THEN FloatNaN
    ELSE polyfit_slope([i \in 1..Len(df) |-> df[i].year.n],
                       [i \in 1..Len(df) |-> df[i].production.n])

\* lines 238-244: (0.0, 0) below 2 joined years
corr_with_rain(df, rain_rows, region) ==
    LET dfj == join_dropna(yearly_production(df), rain_series(rain_rows, region))
    IN IF Len(dfj) < 2
       THEN [corr |-> [k |-> "zero", cov |-> 0, va |-> 0, vb |-> 0], n |-> 0]
       ELSE [corr |-> pearson(Column(dfj, "production"),
                              Column(dfj, "avg_annual_rainfall")),
             n |-> Len(dfj)]

\* lines 249-250: Series.var() is the sample variance (ddof = 1) of the
\* values present; infinity below 2 rows
Infinity == [k |-> "inf", num |-> 1, den |-> 0]

production_var(df) ==
    IF Len(df) > 1
    THEN LET v == CellValues(Column(df, "production"))
         IN IF Len(v) < 2 THEN FloatNaN
            ELSE Frac(ScaledCov(v, v), Len(v) * (Len(v) - 1))
    ELSE Infinity

\* exact arithmetic on the floats of the ranking: a value is a fraction
\* (num / den, den > 0), +inf, or NaN
RECURSIVE GCD(_, _)
GCD(a, b) == IF b = 0 THEN a ELSE GCD(b, a % b)

Reduced(n, d) ==
    LET g == GCD(Abs(n), Abs(d))
        sgn == IF d < 0 THEN 0 - 1 ELSE 1
    IN IF g = 0 THEN Frac(0, 1) ELSE Frac(sgn * (n \div g), sgn * (d \div g))

\* x - y on floats: inf - inf and anything with NaN are NaN
FloatSub(x, y) ==
    IF x.k = "nan" \/ y.k = "nan" THEN FloatNaN
    ELSE IF x.k = "inf" /\ y.k = "inf" THEN FloatNaN
    ELSE IF x.k = "inf" THEN Infinity
    ELSE IF y.k = "inf" THEN [k |-> "neginf", num |-> 0 - 1, den |-> 0]
    ELSE LET g == GCD(x.den, y.den)
         IN Reduced(x.num * (y.den \div g) - y.num * (x.den \div g),
                    x.den * (y.den \div g))

\* abs(x)
FloatAbs(x) ==
    IF x.k = "neginf" THEN Infinity
    ELSE IF x.k = "num" THEN Frac(Abs(x.num), x.den)
    ELSE x

\* a / b < c / d for b, d > 0, by integer parts and then the reciprocals of
\* the fractional parts, so that no product is formed
RECURSIVE FracLess(_, _, _, _)
FracLess(a, b, c, d) ==
    IF a \div b # c \div d THEN a \div b < c \div d
    ELSE IF c % d = 0 THEN FALSE
    ELSE IF a % b = 0 THEN TRUE
    ELSE FracLess(d, c % d, b, a % b)

\* x < y on floats: every comparison with NaN is False
FloatLess(x, y) ==
    IF x.k = "nan" \/ y.k = "nan" THEN FALSE
    ELSE IF x.k = "inf" THEN FALSE
    ELSE IF y.k = "inf" THEN TRUE
    ELSE FracLess(x.num, x.den, y.num, y.den)

\* the float value of a correlation: the 0.0 of too few points, NaN, or
\* r = cov / sqrt(va * vb), held to two decimals (toward zero); r = 1 and
\* r = -1 are exact
corr_value(c) ==
    IF c.k = "zero" THEN Frac(0, 1)
    ELSE IF c.k = "nan" THEN FloatNaN
    ELSE LET r1 == Reduced(Abs(c.cov), c.va)
             r2 == Reduced(Abs(c.cov), c.vb)
             sq == Reduced(r1.num * r2.num, r1.den * r2.den)
             h == CHOOSE j \in 0..100 :
                     /\ j * j * sq.den <= 10000 * sq.num
                     /\ (j < 100 => (j + 1) * (j + 1) * sq.den > 10000 * sq.num)
         IN Reduced(IF c.cov < 0 THEN 0 - h ELSE h, 100)

\* lines 263-265: the region's rainfall values, and whether a rainfall value
\* lies below drought_thresh = rain_mean - max(0.1 * rain_mean, rain_std);
\* rain_std is the sample standard deviation, NaN below 2 values, and
\* max(a, NaN) is a
region_rain(rain_rows, region) ==
    CellValues(Column(rain_series(rain_rows, region), "avg_annual_rainfall"))

below_drought_thresh(v, vals) ==
    LET n == Len(vals)
        total == SumSeq(vals)
        below90 == 10 * n * v < 9 * total
        \* rain_std > 0.1 * rain_mean, with var = ScaledCov / (n * (n - 1))
        stdWins == n >= 2 /\ (total < 0 \/ 100 * n * ScaledCov(vals, vals) > (n - 1) * total * total)
        \* v < rain_mean - rain_std
        belowStd == n * v < total
                      /\ n * ScaledCov(vals, vals) < (n - 1) * (total - n * v) * (total - n * v)
    IN IF n = 0 THEN FALSE
       ELSE IF stdWins THEN belowStd ELSE below90

\* lines 266-275: relative drop of the mean yearly production in the drought
\* years (the years whose first rainfall row of the region is below the
\* threshold) against the mean over all years
drought_drop(df, rain_rows, region) ==
    IF df = <<>> THEN Frac(0, 1)
    ELSE LET prod_by_year == yearly_production(df)
             vals == region_rain(rain_rows, region)
             IsDrought(e) ==
                 LET Same(r) == r.state = region /\ IsNum(r.year) /\ r.year.n = e[1]
                     hits == SelectSeq(rain_rows, Same)
                 IN /\ hits # <<>>
                    /\ IsNum(hits[1].avg_annual_rainfall)
                    /\ below_drought_thresh(hits[1].avg_annual_rainfall.n, vals)
             drought_years == SelectSeq(prod_by_year, IsDrought)
             Totals(es) == [i \in 1..Len(es) |-> es[i][2]]
         IN IF drought_years = <<>> THEN Frac(0, 1)
            ELSE LET mean_all == Reduced(SumSeq(Totals(prod_by_year)), Len(prod_by_year))
                     mean_drought == Reduced(SumSeq(Totals(drought_years)), Len(drought_years))
                     diff == FloatSub(mean_all, mean_drought)
                 IN IF mean_all.num > mean_all.den
                    THEN Reduced(diff.num * mean_all.den, diff.den * mean_all.num)
                    ELSE diff

\* lines 253-278: the four candidates in the order they are appended, each
\* with its effect size abs(metric of crop_a - metric of crop_b)
policy_candidates(slope, corr, var, drop) ==
    << [score |-> FloatAbs(FloatSub(slope.a, slope.b)),
        title |-> "Production trend comparison"],
       [score |-> FloatAbs(FloatSub(corr_value(corr.a.corr), corr_value(corr.b.corr))),
        title |-> "Rainfall-dependence difference"],
       [score |-> FloatAbs(FloatSub(var.a, var.b)),
        title |-> "Yield variability"],
       [score |-> FloatAbs(FloatSub(drop.a, drop.b)),
        title |-> "Drought-year resilience"] >>

\* key=lambda x: -x[0] compared with <: -x < -y is y < x
KeyLess(c, d) == FloatLess(d.score, c.score)

\* list.sort on a short list (one run): the longest prefix in which no
\* element is less than its predecessor is kept (a strictly descending
\* prefix is reversed instead), then each remaining element is inserted by
\* binary search among the elements before it
RECURSIVE AscendingRun(_, _)
AscendingRun(s, n) ==
    IF n < Len(s) /\ ~KeyLess(s[n + 1], s[n]) THEN AscendingRun(s, n + 1) ELSE n

RECURSIVE DescendingRun(_, _)
DescendingRun(s, n) ==
    IF n < Len(s) /\ KeyLess(s[n + 1], s[n]) THEN DescendingRun(s, n + 1) ELSE n

Reversed(s) == [i \in 1..Len(s) |-> s[Len(s) + 1 - i]]

RECURSIVE BinaryPosition(_, _, _, _)
BinaryPosition(s, pivot, l, r) ==
    IF l >= r THEN l
    ELSE LET p == l + ((r - l) \div 2)
         IN IF KeyLess(pivot, s[p + 1])
            THEN BinaryPosition(s, pivot, l, p)
            ELSE BinaryPosition(s, pivot, p + 1, r)

RECURSIVE BinarySort(_, _)
BinarySort(s, start) ==
    IF start >= Len(s) THEN s
    ELSE LET pivot == s[start + 1]
             l == BinaryPosition(s, pivot, 0, start)
             moved == SubSeq(s, 1, l) \o <<pivot>> \o SubSeq(s, l + 1, start)
                        \o SubSeq(s, start + 2, Len(s))
         IN BinarySort(moved, start + 1)

\* line 283: sorted(candidates, key=lambda x: -x[0])
sorted_candidates(cands) ==
    IF Len(cands) < 2 THEN cands
    ELSE IF KeyLess(cands[2], cands[1])
    THEN LET n == DescendingRun(cands, 1)
         IN BinarySort(Reversed(SubSeq(cands, 1, n)) \o SubSeq(cands, n + 1, Len(cands)), n)
    ELSE BinarySort(cands, AscendingRun(cands, 1))

\* lines 288-293, in hundredths: min(1.0, 0.5 + 0.5 * coverage) with
\* coverage = min(len(cA), len(cB)) / max(1, years)
policy_confidence(cA, cB, years) ==
    LET m == Min(Len(cA), Len(cB))
        y == Max(1, years)
    IN Frac(Min(100 * y, 50 * y + 50 * m), y)

\* the result, with the locals the ranking is made of: the metrics of the
\* two crops, and `candidates` as (score, title) after line 283
policy_arguments_result(region, crop_a, crop_b, years, crops, rain) ==
    IF ~crops.cols THEN Raise("KeyError")
    ELSE IF ~rain.cols THEN Raise("KeyError")
    ELSE LET yrs == policy_window(crops.rows, years)
             cA == policy_rows(crops.rows, region, crop_a, yrs)
             cB == policy_rows(crops.rows, region, crop_b, yrs)
             slope == [a |-> safe_slope(cA), b |-> safe_slope(cB)]
             corr == [a |-> corr_with_rain(cA, rain.rows, region),
                      b |-> corr_with_rain(cB, rain.rows, region)]
             var == [a |-> production_var(cA), b |-> production_var(cB)]
             drop == [a |-> drought_drop(cA, rain.rows, region),
                      b |-> drought_drop(cB, rain.rows, region)]
             candidates == Prefix(sorted_candidates(policy_candidates(slope, corr, var, drop)), 3)
             prov == [crops |-> "local://data/normalized_production_2018_19.csv",
                      rain |-> "local://data/normalized_rainfall_2018_19.csv",
                      years_used |-> yrs]
         IN [kind |-> "ok",
             slope |-> slope, corr |-> corr, var |-> var, drop |-> drop,
             candidates |-> candidates,
             arguments |-> [i \in 1..Len(candidates) |->
                              [title |-> candidates[i].title,
                               confidence |-> policy_confidence(cA, cB, years),
                               provenance |-> prov]],
             confidence |-> policy_confidence(cA, cB, years),
             provenance |-> prov]

policy_arguments_for_crop_promotion(region, crop_a, crop_b, years) ==
    /\ result' = policy_arguments_result(region, crop_a, crop_b, years, crops_df, rain_df)
    /\ UNCHANGED <<evidence_items, norm, now, args, aggregate, crops_df, rain_df, call>>

----------------------------------------------------------------------------
(* generator.py : generate_policy_argument (lines 8-92)                    *)
(*                                                                         *)
(* A text is a sequence of pieces [s, n]: the piece's characters s and     *)
(* their number n.  An evidence record may carry, besides the fields read  *)
(* by normalize_evidence, the optional texts headline, title and source.   *)

Piece(s, n) == [s |-> s, n |-> n]

RECURSIVE TextLen(_)
TextLen(t) == IF t = <<>> THEN 0 ELSE Head(t).n + TextLen(Tail(t))

\* e.get(key): None when the record has no such key
Get(e, key) == IF key \in DOMAIN e THEN e[key] ELSE None

\* the characters of an id <<prefix, number>>
IdNames == <<"ev0", "ev1", "ev2", "ev3", "ev4", "ev5", "ev6", "ev7", "ev8", "ev9">>
IdText(id) == <<Piece(IdNames[id[2] + 1], 3)>>

\* a or b for optional texts: a when it is a non-empty text, else b
OrText(a, b) == IF a # None /\ TextLen(a[1]) > 0 THEN a ELSE b

\* line 12: e.get('headline') or e.get('title') or e.get('source') or e.get('id')
summary_part(e) ==
    OrText(Get(e, "headline"),
           OrText(Get(e, "title"),
                  OrText(Get(e, "source"),
                         IF Get(e, "id") = None THEN None ELSE Some(IdText(Get(e, "id")[1])))))

\* ' | '.join(parts)
RECURSIVE JoinParts(_)
JoinParts(parts) ==
    IF parts = <<>> THEN <<>>
    ELSE IF Len(parts) = 1 THEN parts[1][1]
    ELSE parts[1][1] \o <<Piece(" | ", 3)>> \o JoinParts(Tail(parts))

\* lines 8-13: the summary of the first 3 items; join raises TypeError on a
\* part that is None
summarize_evidence(evidence) ==
    LET parts == [i \in 1..Min(3, Len(evidence)) |-> summary_part(evidence[i])]
    IN IF \E i \in 1..Len(parts) : parts[i] = None
       THEN Raise("TypeError")
       ELSE [kind |-> "ok", text |-> JoinParts(parts)]

\* text[:k]: the pieces that fit, the one crossing the limit cut short
RECURSIVE Truncated(_, _)
Truncated(t, k) ==
    IF t = <<>> \/ k <= 0 THEN <<>>
    ELSE IF Head(t).n <= k THEN <<Head(t)>> \o Truncated(Tail(t), k - Head(t).n)
    ELSE <<Piece(Head(t).s, k)>>

\* lines 27-46: the sort key (-score, -ts), held as <<score, day>>: the score
\* in hundredths (0.5 when the key is absent) and the date's day number, the
\* epoch's when the date is missing or does not parse
EpochDay == ToOrdinal(<<1970, 1, 1>>)

key_score(e) == IF Get(e, "score") = None THEN 50 ELSE e.score[1]

key_day(e) ==
    LET d == IF "date" \in DOMAIN e THEN ParseDate(e.date) ELSE NoDate
    IN IF d.k = "dt" THEN d.ord ELSE EpochDay

\* _key(a) < _key(b)
EvidenceKeyLess(a, b) ==
    \/ key_score(a) > key_score(b)
    \/ (key_score(a) = key_score(b) /\ key_day(a) > key_day(b))

\* line 48: sorted(evidence, key=_key), a stable sort on a total preorder
RECURSIVE InsertByKey(_, _)
InsertByKey(sorted, e) ==
    IF sorted = <<>> THEN <<e>>
    ELSE IF EvidenceKeyLess(e, Head(sorted)) THEN <<e>> \o sorted
    ELSE <<Head(sorted)>> \o InsertByKey(Tail(sorted), e)

RECURSIVE sorted_ev(_)
sorted_ev(evidence) ==
    IF evidence = <<>> THEN <<>>
    ELSE InsertByKey(sorted_ev(SubSeq(evidence, 1, Len(evidence) - 1)),
                     evidence[Len(evidence)])

\* mutant of rotated_window: every slot starts at the top-ranked item
rotated_window_unrotated(ev, i) == [j \in 1..Min(3, Len(ev)) |-> ev[j]]

\* lines 58-63: the window of slot i rotated over at most 3 items
rotated_window(ev, i) ==
    LET n == Len(ev)
        start == i % n
    IN [j \in 1..Min(3, n) |-> ev[((start + j - 1) % n) + 1]]

\* mutant of take_unused: the ids taken are not remembered
take_unused_forgetful(ev, used_ids, selected) ==
    [selected |-> Prefix(ev, 3), used_ids |-> used_ids]

\* lines 65-72: the first 3 items whose id is not in used_ids, each id added
\* to used_ids as its item is taken
RECURSIVE take_unused(_, _, _)
take_unused(ev, used_ids, selected) ==
    IF ev = <<>> \/ Len(selected) >= 3 THEN [selected |-> selected, used_ids |-> used_ids]
    ELSE IF Get(Head(ev), "id") \in used_ids THEN take_unused(Tail(ev), used_ids, selected)
    ELSE take_unused(Tail(ev), used_ids \cup {Get(Head(ev), "id")},
                     Append(selected, Head(ev)))

\* e.get('id', '?')
UnknownId == Some(<<"?", 0>>)
source_id(e) == IF Get(e, "id") = None THEN UnknownId ELSE e.id

\* mutant of SumScores: every selected item counted with the first one's score
SumScores_of_first(selected) ==
    IF selected = <<>> THEN 0 ELSE Len(selected) * key_score(selected[1])

\* line 84: sum(e.get('score', 0.5) for e in selected)
SumScores(selected) == SumSeq([i \in 1..Len(selected) |-> key_score(selected[i])])

\* the argument text: the template of the side filled with the claim and
\* the summary
question_text == <<Piece("Should we expand subsidized irrigation in region X?", 51)>>

TEMPLATE_PRO(claim, evidence_summary) ==
    <<Piece("Expand program: ", 16)>> \o claim \o <<Piece(". Evidence: ", 12)>>
        \o evidence_summary \o <<Piece(".", 1)>>

TEMPLATE_CON(claim, evidence_summary) ==
    <<Piece("Caution against expansion: ", 27)>> \o claim \o <<Piece(". Evidence: ", 12)>>
        \o evidence_summary \o <<Piece(".", 1)>>

\* mutant of slot_side: the first half of the slots argue for, the rest against
slot_side_first_two_pro(i) == IF i < 2 THEN "pro" ELSE "con"

\* line 54: side = 'pro' if i % 2 == 0 else 'con'
slot_side(i) == IF i % 2 = 0 THEN "pro" ELSE "con"

\* lines 54-90: the argument of slot i (0-based) built from `selected`
slot_argument(question, i, selected) ==
    LET pro == slot_side(i) = "pro"
        summary == summarize_evidence(selected).text
        claim == question \o <<Piece(" - ", 3)>>
                   \o <<IF pro THEN Piece("benefits", 8) ELSE Piece("risks", 5)>>
    IN [title |-> <<IF pro THEN Piece("For", 3) ELSE Piece("Against", 7), Piece(": ", 2)>>
                     \o Truncated(summary, 80),
        argument |-> IF pro THEN TEMPLATE_PRO(claim, summary) ELSE TEMPLATE_CON(claim, summary),
        provenance |-> Reduced(SumScores(selected), Max(1, Len(selected))),
        sources |-> [j \in 1..Len(selected) |-> source_id(selected[j])]]

\* lines 53-90: slots i .. top_k - 1, given the arguments and used ids so far
RECURSIVE generate_slots(_, _, _, _, _, _)
generate_slots(question, ev, top_k, i, used_ids, out) ==
    IF i >= top_k THEN [kind |-> "ok", args |-> out]
    ELSE LET n == Len(ev)
             picked == IF n = 0 THEN [selected |-> <<>>, used_ids |-> used_ids]
                       ELSE IF n <= 3
                       THEN [selected |-> rotated_window(ev, i), used_ids |-> used_ids]
                       ELSE take_unused(ev, used_ids, <<>>)
             selected == IF picked.selected = <<>> THEN Prefix(ev, Min(3, n))
                         ELSE picked.selected
         IN IF summarize_evidence(selected).kind = "raise"
            THEN summarize_evidence(selected)
            ELSE generate_slots(question, ev, top_k, i + 1, picked.used_ids,
                                Append(out, slot_argument(question, i, selected)))

\* mutant of generate_policy_argument: one slot per evidence item at most
generate_policy_argument_per_item(question, evidence, top_k) ==
    generate_slots(question, sorted_ev(evidence), Min(top_k, Len(evidence)), 0, {}, <<>>)

generate_policy_argument(question, evidence, top_k) ==
    generate_slots(question, sorted_ev(evidence), top_k, 0, {}, <<>>)

----------------------------------------------------------------------------
(* normalization.py : provenance_score (lines 43-52)                       *)

\* x + y and x * (a / b) on fractions
FracAdd(x, y) ==
    LET g == GCD(x.den, y.den)
    IN Reduced(x.num * (y.den \div g) + y.num * (x.den \div g), x.den * (y.den \div g))

FracTimes(x, a, b) == Reduced(x.num * a, x.den * b)

RECURSIVE FracSum(_)
FracSum(vals) == IF vals = <<>> THEN Frac(0, 1) ELSE FracAdd(Head(vals), FracSum(Tail(vals)))

\* sorted(vals, reverse=True)
RECURSIVE InsertDescending(_, _)
InsertDescending(sorted, v) ==
    IF sorted = <<>> THEN <<v>>
    ELSE IF FloatLess(Head(sorted), v) THEN <<v>> \o sorted
    ELSE <<Head(sorted)>> \o InsertDescending(Tail(sorted), v)

\* mutant of sorted_descending: the values are weighted in the order given
sorted_as_given(vals) == vals

RECURSIVE sorted_descending(_)
sorted_descending(vals) ==
    IF vals = <<>> THEN <<>>
    ELSE InsertDescending(sorted_descending(SubSeq(vals, 1, Len(vals) - 1)), vals[Len(vals)])

\* a.get('provenance', 0.0) of every argument
provenance_values(arguments) ==
    [i \in 1..Len(arguments) |->
        IF "provenance" \in DOMAIN arguments[i] THEN arguments[i].provenance ELSE Frac(0, 1)]

\* the returned dict as the set of its keys and their values
provenance_score(arguments) ==
    LET vals == provenance_values(arguments)
        n == Len(vals)
        ranked == sorted_descending(vals)
    IN IF n = 0 THEN [kind |-> "ok", keys |-> {"mean"}, mean |-> Frac(0, 1)]
       ELSE [kind |-> "ok", keys |-> {"mean", "weighted"},
             mean |-> FracTimes(FracSum(vals), 1, n),
             weighted |-> FracTimes(FracSum([i \in 1..n |-> FracTimes(ranked[i], i, n)]), 1, n)]

----------------------------------------------------------------------------
(* normalization.py : the evidence pipeline as a state machine             *)

NormalizeEvidence ==
    /\ norm' = normalize_evidence(evidence_items, now)
    /\ UNCHANGED <<evidence_items, now, args, aggregate, crops_df, rain_df, call, result>>

\* args = generate_policy_argument(question, norm, top_k=top_k); an exception
\* leaves args as it was
Generate ==
    /\ call.op = "generate_policy_argument"
    /\ result' = generate_policy_argument(question_text, norm, call.top_k)
    /\ args' = IF result'.kind = "ok" THEN result'.args ELSE args
    /\ UNCHANGED <<evidence_items, norm, now, aggregate, crops_df, rain_df, call>>

\* provenance_score(args)
Aggregate ==
    /\ aggregate' = provenance_score(args)
    /\ UNCHANGED <<evidence_items, norm, now, args, crops_df, rain_df, call, result>>

\* normalize_evidence called on a list, and called again on the list it
\* returned, `later` days after the first call
NormalizeFirst ==
    /\ call.op = "normalize_evidence"
    /\ norm' = normalize_evidence(evidence_items, now)
    /\ call' = [call EXCEPT !.op = "normalize_evidence again"]
    /\ UNCHANGED <<evidence_items, now, args, aggregate, crops_df, rain_df, result>>

NormalizeAgain ==
    /\ call.op = "normalize_evidence again"
    /\ now' = now + call.later
    /\ result' = [kind |-> "ok", norm |-> normalize_evidence(norm, now')]
    /\ call' = [call EXCEPT !.op = "returned"]
    /\ UNCHANGED <<evidence_items, norm, args, aggregate, crops_df, rain_df>>

\* run_smoke.py lines 18-27 and app.py lines 99-109: one request normalizes
\* the evidence, generates the arguments and aggregates their provenance; an
\* exception of generate_policy_argument ends the request
RunPipeline ==
    /\ call.op = "generate_policy_argument"
    /\ result.kind = "none"
    /\ norm' = normalize_evidence(evidence_items, now)
    /\ result' = generate_policy_argument(question_text, norm', call.top_k)
    /\ args' = IF result'.kind = "ok" THEN result'.args ELSE args
    /\ aggregate' = IF result'.kind = "ok" THEN provenance_score(args') ELSE aggregate
    /\ UNCHANGED <<evidence_items, now, crops_df, rain_df, call>>

----------------------------------------------------------------------------
(* schema_mapper.py : map_schema                                           *)
(*                                                                         *)
(* A text is the sequence of its characters.  A raw table, as read from a  *)
(* file, is [columns, rows]: the header texts and, per row, one cell per   *)
(* column.  A raw cell is a str, an int, a float n/d (d = 1 for an         *)
(* integral value), NaN, pd.NA or None.                                    *)

RawStr(text) == [t |-> "str", n |-> 0, d |-> 1, v |-> text]
RawInt(k) == [t |-> "int", n |-> k, d |-> 1, v |-> <<>>]
RawFloat(k) == [t |-> "float", n |-> k, d |-> 1, v |-> <<>>]
RawNaN == [t |-> "nan", n |-> 0, d |-> 1, v |-> <<>>]
RawNA == [t |-> "NA", n |-> 0, d |-> 1, v |-> <<>>]
RawNone == [t |-> "None", n |-> 0, d |-> 1, v |-> <<>>]

\* isna(): NaN, pd.NA and None are missing
IsMissing(c) == c.t \in {"nan", "NA", "None"}

RawFrame(columns, rows) == [columns |-> columns, rows |-> rows]

DigitChars == <<"0", "1", "2", "3", "4", "5", "6", "7", "8", "9">>
UpperChars == <<"A", "B", "C", "D", "E", "F", "G", "H", "I", "J", "K", "L", "M", "N", "O", "P", "Q", "R", "S", "T", "U", "V", "W", "X", "Y", "Z">>
LowerChars == <<"a", "b", "c", "d", "e", "f", "g", "h", "i", "j", "k", "l", "m", "n", "o", "p", "q", "r", "s", "t", "u", "v", "w", "x", "y", "z">>

IsDigitChar(ch) == \E d \in 1..Len(DigitChars) : DigitChars[d] = ch

\* str.isdigit()
isdigit(text) == text # <<>> /\ \A i \in 1..Len(text) : IsDigitChar(text[i])

LowerChar(ch) ==
    IF \E i \in 1..Len(UpperChars) : UpperChars[i] = ch
    THEN LowerChars[CHOOSE i \in 1..Len(UpperChars) : UpperChars[i] = ch]
    ELSE ch

UpperChar(ch) ==
    IF \E i \in 1..Len(LowerChars) : LowerChars[i] = ch
    THEN UpperChars[CHOOSE i \in 1..Len(LowerChars) : LowerChars[i] = ch]
    ELSE ch

\* str.lower()
lower(text) == [i \in 1..Len(text) |-> LowerChar(text[i])]

\* str.replace(old, new) for a one-character old and new
replace_char(text, old, new) ==
    [i \in 1..Len(text) |-> IF text[i] = old THEN new ELSE text[i]]

\* str(n) of a non-negative int
RECURSIVE Decimal(_)
Decimal(k) ==
    IF k < 10 THEN <<DigitChars[k + 1]>>
    ELSE Decimal(k \div 10) \o <<DigitChars[(k % 10) + 1]>>

\* str(x) of a cell
str(c) ==
    CASE c.t = "str" -> c.v
      [] c.t = "int" -> Decimal(c.n)
      [] c.t = "float" /\ c.d = 1 -> Decimal(c.n) \o <<".", "0">>
      [] c.t = "nan" -> <<"n", "a", "n">>
      [] c.t = "NA" -> <<"<", "N", "A", ">">>
      [] c.t = "None" -> <<"N", "o", "n", "e">>

CANONICAL == <<"state", "district", "year", "crop", "production", "avg_annual_rainfall">>

\* the aliases in the iteration order of the dict and of its lists
ALIASES ==
    <<[canon |-> "state", alias |-> <<"s", "t", "a", "t", "e", "_", "n", "a", "m", "e">>],
      [canon |-> "state", alias |-> <<"s", "t", "a", "t", "e">>],
      [canon |-> "state", alias |-> <<"s", "t", "_", "n", "a", "m", "e">>],
      [canon |-> "state", alias |-> <<"s", "t", "a", "t", "e", "c", "o", "d", "e">>],
      [canon |-> "state", alias |-> <<"s", "t", "a", "t", "e", "_", "n", "a", "m", "e">>],
      [canon |-> "district", alias |-> <<"d", "i", "s", "t", "r", "i", "c", "t">>],
      [canon |-> "district", alias |-> <<"d", "i", "s", "t", "r", "i", "c", "t", "_", "n", "a", "m", "e">>],
      [canon |-> "district", alias |-> <<"d", "i", "s", "t", "_", "n", "a", "m", "e">>],
      [canon |-> "district", alias |-> <<"d", "i", "s", "t", "r", "i", "c", "t", "c", "o", "d", "e">>],
      [canon |-> "year", alias |-> <<"y", "e", "a", "r">>],
      [canon |-> "year", alias |-> <<"y", "r">>],
      [canon |-> "year", alias |-> <<"s", "e", "a", "s", "o", "n">>],
      [canon |-> "year", alias |-> <<"f", "i", "n", "a", "n", "c", "i", "a", "l", "_", "y", "e", "a", "r">>],
      [canon |-> "crop", alias |-> <<"c", "r", "o", "p">>],
      [canon |-> "crop", alias |-> <<"c", "r", "o", "p", "_", "n", "a", "m", "e">>],
      [canon |-> "crop", alias |-> <<"c", "r", "o", "p", "c", "o", "d", "e">>],
      [canon |-> "crop", alias |-> <<"c", "r", "o", "p", "n", "a", "m", "e">>],
      [canon |-> "production", alias |-> <<"p", "r", "o", "d", "u", "c", "t", "i", "o", "n">>],
      [canon |-> "production", alias |-> <<"p", "r", "o", "d", "u", "c", "t", "i", "o", "n", "_", "t", "o", "n", "n", "e", "s">>],
      [canon |-> "production", alias |-> <<"q", "t", "y">>],
      [canon |-> "production", alias |-> <<"p", "r", "o", "d", "u", "c", "t", "i", "o", "n", "_", "q", "u", "a", "n", "t", "i", "t", "y">>],
      [canon |-> "production", alias |-> <<"p", "r", "o", "d", "u", "c", "t", "i", "o", "n", "_", "i", "n", "_", "t", "o", "n", "n", "e", "s">>],
      [canon |-> "production", alias |-> <<"p", "r", "o", "d", "u", "c", "t", "i", "o", "n", "_", "i", "n", "_", "q", "t", "l", "s">>],
      [canon |-> "avg_annual_rainfall", alias |-> <<"r", "a", "i", "n", "f", "a", "l", "l">>],
      [canon |-> "avg_annual_rainfall", alias |-> <<"a", "v", "g", "_", "a", "n", "n", "u", "a", "l", "_", "r", "a", "i", "n", "f", "a", "l", "l">>],
      [canon |-> "avg_annual_rainfall", alias |-> <<"a", "n", "n", "u", "a", "l", "_", "r", "a", "i", "n", "f", "a", "l", "l">>],
      [canon |-> "avg_annual_rainfall", alias |-> <<"r", "a", "i", "n", "_", "m", "m">>]>>

\* difflib.SequenceMatcher(None, a, b): a[i..i+k-1] and b[j..j+k-1] are a
\* common block inside a[..ahi] and b[..bhi]
BlockAt(a, b, i, j, k, ahi, bhi) ==
    /\ i + k - 1 <= ahi
    /\ j + k - 1 <= bhi
    /\ \A d \in 0..(k - 1) : a[i + d] = b[j + d]

HasBlock(a, b, alo, ahi, blo, bhi, k) ==
    \E i \in alo..ahi : \E j \in blo..bhi : BlockAt(a, b, i, j, k, ahi, bhi)

\* the size of the longest common block of a[alo..ahi] and b[blo..bhi]
LongestSize(a, b, alo, ahi, blo, bhi) ==
    CHOOSE k \in 0..(Min(ahi - alo, bhi - blo) + 1) :
        /\ k = 0 \/ HasBlock(a, b, alo, ahi, blo, bhi, k)
        /\ ~HasBlock(a, b, alo, ahi, blo, bhi, k + 1)

\* find_longest_match: of the longest common blocks the one starting
\* earliest in a, and of those the one starting earliest in b
BlockOfSize(a, b, alo, ahi, blo, bhi, k) ==
    LET starts(i) == {j \in blo..bhi : BlockAt(a, b, i, j, k, ahi, bhi)}
        i0 == CHOOSE i \in alo..ahi :
                 starts(i) # {} /\ \A h \in alo..(i - 1) : starts(h) = {}
        j0 == CHOOSE j \in starts(i0) : \A h \in starts(i0) : j <= h
    IN [i |-> i0, j |-> j0, k |-> k]

find_longest_match(a, b, alo, ahi, blo, bhi) ==
    BlockOfSize(a, b, alo, ahi, blo, bhi, LongestSize(a, b, alo, ahi, blo, bhi))

\* get_matching_blocks: the total size of the blocks found by matching the
\* longest block and then, recursively, the pieces to its left and right
RECURSIVE matching_size(_, _, _, _, _, _)
BlocksAround(a, b, alo, ahi, blo, bhi, m) ==
    m.k + matching_size(a, b, alo, m.i - 1, blo, m.j - 1)
        + matching_size(a, b, m.i + m.k, ahi, m.j + m.k, bhi)

matching_size(a, b, alo, ahi, blo, bhi) ==
    IF alo > ahi \/ blo > bhi THEN 0
    ELSE IF LongestSize(a, b, alo, ahi, blo, bhi) = 0 THEN 0
    ELSE BlocksAround(a, b, alo, ahi, blo, bhi,
                      find_longest_match(a, b, alo, ahi, blo, bhi))

\* SequenceMatcher.ratio() = 2.0 * matches / (len(a) + len(b)), 1.0 for two
\* empty texts, as the fraction [num, den]
ratio(a, b) ==
    IF Len(a) + Len(b) = 0 THEN [num |-> 1, den |-> 1]
    ELSE [num |-> 2 * matching_size(a, b, 1, Len(a), 1, Len(b)), den |-> Len(a) + Len(b)]

\* score > best[1] on two ratios
RatioGreater(x, y) == x.num * y.den > y.num * x.den

\* the loop of _best_alias, given the score of every alias: an alias equal
\* to the name returns at once with score 1.0; otherwise the first alias
\* whose score is strictly greater than all before it and not less than any
\* after it wins, and (None, 0.0) stays when no score exceeds 0.0
best_of(col_l, scores) ==
    LET exact == {k \in 1..Len(ALIASES) : col_l = ALIASES[k].alias}
        k0 == CHOOSE k \in 1..Len(ALIASES) :
                 /\ \A h \in 1..(k - 1) : RatioGreater(scores[k], scores[h])
                 /\ \A h \in (k + 1)..Len(ALIASES) : ~RatioGreater(scores[h], scores[k])
    IN IF exact # {}
       THEN [canon |-> Some(ALIASES[CHOOSE k \in exact : TRUE].canon),
             score |-> [num |-> 1, den |-> 1]]
       ELSE IF \A k \in 1..Len(ALIASES) : scores[k].num = 0
       THEN [canon |-> None, score |-> [num |-> 0, den |-> 1]]
       ELSE [canon |-> Some(ALIASES[k0].canon), score |-> scores[k0]]

best_alias(col) ==
    LET col_l == replace_char(lower(col), " ", "_")
    IN best_of(col_l, [k \in 1..Len(ALIASES) |-> ratio(col_l, ALIASES[k].alias)])

ColumnCells(df, j) == [i \in 1..Len(df.rows) |-> df.rows[i][j]]

ColumnIndex(df, name) == CHOOSE j \in 1..Len(df.columns) : df.columns[j] = name

NoMapping == [canon \in Range(CANONICAL) |-> None]

\* lines 61-65 over cols[k..]: a column goes to its best alias' canonical
\* field when the score exceeds 0.6 and the field is still free
RECURSIVE map_columns(_, _, _)
map_columns(cols, k, mapping) ==
    IF k > Len(cols) THEN mapping
    ELSE LET b == best_alias(cols[k])
             take == /\ b.canon # None
                     /\ RatioGreater(b.score, [num |-> 6, den |-> 10])
                     /\ mapping[b.canon[1]] = None
         IN map_columns(cols, k + 1,
                IF take THEN [mapping EXCEPT ![b.canon[1]] = Some(cols[k])] ELSE mapping)

\* line 71: every non-missing value is an int or a str of digits
year_like(cells) ==
    \A i \in 1..Len(cells) :
        \/ IsMissing(cells[i])
        \/ cells[i].t = "int"
        \/ (cells[i].t = "str" /\ isdigit(cells[i].v))

\* lines 68-74: without a year column, the first unused year-like column
year_fallback(df, mapping) ==
    LET used == {mapping[c][1] : c \in {c \in Range(CANONICAL) : mapping[c] # None}}
        free == {j \in 1..Len(df.columns) :
                    df.columns[j] \notin used /\ year_like(ColumnCells(df, j))}
    IN IF mapping["year"] # None \/ free = {} THEN mapping
       ELSE [mapping EXCEPT !["year"] =
                Some(df.columns[CHOOSE j \in free : \A k \in free : j <= k])]

\* str.join
RECURSIVE join(_, _)
join(sep, texts) ==
    IF texts = <<>> THEN <<>>
    ELSE IF Len(texts) = 1 THEN texts[1]
    ELSE texts[1] \o sep \o join(sep, Tail(texts))

\* hashlib.sha1(text).hexdigest(): distinct texts get distinct digests
sha1(text) == [sha1 |-> text]

row_checksum(row_values) ==
    sha1(join(<<"|">>, [k \in 1..Len(row_values) |-> str(row_values[k])]))

\* lines 77-83: `out` starts without rows; the first column assigned from df
\* gives it df's index, filling the columns assigned before it with NaN, and
\* every later pd.NA is broadcast
canonical_rows(df, mapping) ==
    LET mapped(k) == mapping[CANONICAL[k]] # None /\ mapping[CANONICAL[k]][1] # <<>>
        series == {k \in 1..Len(CANONICAL) : mapped(k)}
        first == CHOOSE k \in series : \A m \in series : k <= m
        cell(i, k) ==
            IF mapped(k) THEN df.rows[i][ColumnIndex(df, mapping[CANONICAL[k]][1])]
            ELSE IF k < first THEN RawNaN
            ELSE RawNA
    IN IF series = {} THEN <<>>
       ELSE [i \in 1..Len(df.rows) |-> [k \in 1..Len(CANONICAL) |-> cell(i, k)]]

\* lines 92-94: a row of out is its canonical values, in the order of
\* CANONICAL, and its __row_id
with_row_ids(rows, mapping) ==
    [kind |-> "ok",
     columns |-> CANONICAL \o <<"__row_id">>,
     rows |-> [i \in 1..Len(rows) |->
                 [values |-> rows[i], row_id |-> row_checksum(rows[i])]],
     mapping |-> mapping]

build_out(df, mapping) == with_row_ids(canonical_rows(df, mapping), mapping)

\* map_schema(df): (out, mapping)
map_schema(df) ==
    build_out(df, year_fallback(df, map_columns(df.columns, 1, NoMapping)))

MapSchema ==
    /\ call.op = "map_schema"
    /\ result' = map_schema(call.df)
    /\ UNCHANGED <<evidence_items, norm, now, args, aggregate, crops_df, rain_df, call>>

----------------------------------------------------------------------------
(* app/normalize.py : texts and frames                                     *)
(*                                                                         *)
(* The frame a normalizer works on is a raw table whose column labels may  *)
(* repeat after a rename.  `keeps_na` tells whether Series.astype(str)     *)
(* keeps a missing value missing (pandas 3) or turns it into the text      *)
(* 'None', 'nan' or '<NA>' (pandas 1 and 2).                               *)

IsLetter(ch) ==
    \/ \E i \in 1..Len(UpperChars) : UpperChars[i] = ch
    \/ \E i \in 1..Len(LowerChars) : LowerChars[i] = ch

\* str.strip() of blanks
RECURSIVE strip(_)
strip(text) ==
    IF text = <<>> THEN text
    ELSE IF Head(text) = " " THEN strip(Tail(text))
    ELSE IF text[Len(text)] = " " THEN strip(SubSeq(text, 1, Len(text) - 1))
    ELSE text

\* str.title(): a letter is upper case after a non-letter and lower case
\* after a letter
str_title(text) ==
    [i \in 1..Len(text) |->
        IF i > 1 /\ IsLetter(text[i - 1]) THEN LowerChar(text[i]) ELSE UpperChar(text[i])]

\* sub in text
Contains(text, sub) ==
    \E i \in 1..(Len(text) - Len(sub) + 1) : SubSeq(text, i, i + Len(sub) - 1) = sub

\* text.startswith(sub), text.endswith(sub)
StartsWith(text, sub) == Len(sub) <= Len(text) /\ SubSeq(text, 1, Len(sub)) = sub
EndsWith(text, sub) ==
    Len(sub) <= Len(text) /\ SubSeq(text, Len(text) - Len(sub) + 1, Len(text)) = sub

DigitOf(ch) == (CHOOSE d \in 1..Len(DigitChars) : DigitChars[d] = ch) - 1

\* int(text) of a text of digits
RECURSIVE TextValue(_)
TextValue(text) ==
    IF text = <<>> THEN 0
    ELSE 10 * TextValue(SubSeq(text, 1, Len(text) - 1)) + DigitOf(text[Len(text)])

HasColumn(df, label) == \E j \in 1..Len(df.columns) : df.columns[j] = label

\* the positions of the columns that carry a label, left to right
Indices(df, label) == SortAsc({j \in 1..Len(df.columns) : df.columns[j] = label})

CountColumns(df, label) == Len(Indices(df, label))

\* df[label] when one column carries the label
Series(df, label) == ColumnCells(df, Indices(df, label)[1])

\* df[label] = cells: every column that carries the label is overwritten
\* (the value is tiled over repeated labels), a new label is appended
set_column(df, label, cells) ==
    IF HasColumn(df, label)
    THEN RawFrame(df.columns,
                  [i \in 1..Len(df.rows) |->
                      [j \in 1..Len(df.columns) |->
                          IF df.columns[j] = label THEN cells[i] ELSE df.rows[i][j]]])
    ELSE RawFrame(Append(df.columns, label),
                  [i \in 1..Len(df.rows) |-> Append(df.rows[i], cells[i])])

\* df[label] = scalar
set_scalar(df, label, c) == set_column(df, label, [i \in 1..Len(df.rows) |-> c])

\* df[labels]: for each label in turn, every column that carries it
RECURSIVE SelectedIndices(_, _)
SelectedIndices(df, labels) ==
    IF labels = <<>> THEN <<>>
    ELSE Indices(df, Head(labels)) \o SelectedIndices(df, Tail(labels))

take_columns(df, idx) ==
    RawFrame([j \in 1..Len(idx) |-> df.columns[idx[j]]],
             [i \in 1..Len(df.rows) |-> [j \in 1..Len(idx) |-> df.rows[i][idx[j]]]])

select_columns(df, labels) == take_columns(df, SelectedIndices(df, labels))

\* pd.to_numeric(errors='coerce') on one value: a text of digits is its
\* number, any other text of the model and a missing value are NaN
numeric_cell(c) ==
    IF c.t = "str" THEN (IF isdigit(c.v) THEN RawInt(TextValue(c.v)) ELSE RawNaN)
    ELSE IF IsMissing(c) THEN RawNaN
    ELSE c

\* a numeric column holding a NaN or a float is float64
float_column(cells) ==
    IF \A i \in 1..Len(cells) : cells[i].t = "int" THEN cells
    ELSE [i \in 1..Len(cells) |->
             IF cells[i].t = "int" THEN RawFloat(cells[i].n) ELSE cells[i]]

\* pd.to_numeric(series, errors='coerce')
to_numeric_series(cells) ==
    float_column([i \in 1..Len(cells) |-> numeric_cell(cells[i])])

\* the numbers of a row of numeric cells, NaN skipped, as fractions
RECURSIVE RowNumbers(_)
RowNumbers(cells) ==
    IF cells = <<>> THEN <<>>
    ELSE IF Head(cells).t \in {"int", "float"}
         THEN <<Frac(Head(cells).n, Head(cells).d)>> \o RowNumbers(Tail(cells))
    ELSE RowNumbers(Tail(cells))

RawFrac(x) == [t |-> "float", n |-> x.num, d |-> x.den, v |-> <<>>]

\* frame.apply(pd.to_numeric, errors='coerce').sum(axis=1): NaN counts as
\* zero, a row without a number sums to 0
row_sums(df, idx) ==
    float_column([i \in 1..Len(df.rows) |->
        LET x == FracSum(RowNumbers([j \in 1..Len(idx) |-> numeric_cell(df.rows[i][idx[j]])]))
        IN IF \A j \in 1..Len(idx) : numeric_cell(df.rows[i][idx[j]]).t = "int"
           THEN RawInt(x.num) ELSE RawFrac(x)])

\* frame.apply(pd.to_numeric, errors='coerce').mean(axis=1): NaN is
\* skipped, a row without a number has mean NaN
row_means(df, idx) ==
    [i \in 1..Len(df.rows) |->
        LET nums == RowNumbers([j \in 1..Len(idx) |-> numeric_cell(df.rows[i][idx[j]])])
        IN IF nums = <<>> THEN RawNaN
           ELSE RawFrac(FracTimes(FracSum(nums), 1, Len(nums)))]

\* series.astype(str) on one value
astype_str(c, keeps_na) ==
    IF IsMissing(c) /\ keeps_na THEN RawNaN ELSE RawStr(str(c))

\* .astype(str).str.strip().str.title().fillna('Unknown') on one value
state_cell(c, keeps_na) ==
    LET x == astype_str(c, keeps_na)
    IN IF IsMissing(x) THEN RawStr(<<"U", "n", "k", "n", "o", "w", "n">>) ELSE RawStr(str_title(strip(x.v)))

\* .astype(str).str.strip().str.lower().fillna('unknown') on one value
crop_cell(c, keeps_na) ==
    LET x == astype_str(c, keeps_na)
    IN IF IsMissing(x) THEN RawStr(<<"u", "n", "k", "n", "o", "w", "n">>) ELSE RawStr(lower(strip(x.v)))

\* the loop `for c in cols: if c not in df.columns: df[c] = fill`
RECURSIVE fill_missing(_, _, _)
fill_missing(df, labels, fill) ==
    IF labels = <<>> THEN df
    ELSE fill_missing(IF HasColumn(df, Head(labels)) THEN df
                      ELSE set_scalar(df, Head(labels), fill),
                      Tail(labels), fill)

\* df.rename(columns=colmap): renamed[j] is None for a label colmap lacks
rename_columns(df, renamed) ==
    RawFrame([j \in 1..Len(df.columns) |->
                 IF renamed[j] = None THEN df.columns[j] ELSE renamed[j][1]],
             df.rows)

Ok(df) == [kind |-> "ok", columns |-> df.columns, rows |-> df.rows]

----------------------------------------------------------------------------
(* app/normalize.py : normalize_agriculture                                *)

\* lines 8-22: the chain of ifs, the last one that applies deciding
agriculture_colmap(c) ==
    IF Contains(c, <<"s", "e", "a", "s", "o", "n">>) THEN Some(<<"s", "e", "a", "s", "o", "n">>)
    ELSE IF Contains(c, <<"a", "r", "e", "a">>) THEN Some(<<"a", "r", "e", "a">>)
    ELSE IF Contains(c, <<"p", "r", "o", "d", "u", "c", "t", "i", "o", "n">>) \/ Contains(c, <<"p", "r", "o", "d">>) THEN Some(<<"p", "r", "o", "d", "u", "c", "t", "i", "o", "n", "_", "t", "o", "n", "n", "e", "s">>)
    ELSE IF Contains(c, <<"c", "r", "o", "p">>) THEN Some(<<"c", "r", "o", "p">>)
    ELSE IF c \in {<<"y", "e", "a", "r">>, <<"y", "y", "y", "y">>} THEN Some(<<"y", "e", "a", "r">>)
    ELSE IF Contains(c, <<"d", "i", "s", "t", "r", "i", "c", "t">>) THEN Some(<<"d", "i", "s", "t", "r", "i", "c", "t">>)
    ELSE IF Contains(c, <<"s", "t", "a", "t", "e">>) THEN Some(<<"s", "t", "a", "t", "e">>)
    ELSE None

AGRICULTURE_COLS ==
    <<<<"s", "t", "a", "t", "e">>, <<"d", "i", "s", "t", "r", "i", "c", "t">>, <<"y", "e", "a", "r">>, <<"c", "r", "o", "p">>, <<"s", "e", "a", "s", "o", "n">>, <<"p", "r", "o", "d", "u", "c", "t", "i", "o", "n", "_", "t", "o", "n", "n", "e", "s">>, <<"a", "r", "e", "a">>>>

\* line 6
agriculture_lowered(df) ==
    RawFrame([j \in 1..Len(df.columns) |-> lower(strip(df.columns[j]))], df.rows)

\* line 23
agriculture_renamed(df) ==
    rename_columns(df, [j \in 1..Len(df.columns) |-> agriculture_colmap(df.columns[j])])

\* lines 24-31: one production column is coerced; several are coerced and
\* summed row-wise, and the sum is written to each of them
agriculture_production(df) ==
    IF ~HasColumn(df, <<"p", "r", "o", "d", "u", "c", "t", "i", "o", "n", "_", "t", "o", "n", "n", "e", "s">>) THEN df
    ELSE IF CountColumns(df, <<"p", "r", "o", "d", "u", "c", "t", "i", "o", "n", "_", "t", "o", "n", "n", "e", "s">>) > 1
    THEN set_column(df, <<"p", "r", "o", "d", "u", "c", "t", "i", "o", "n", "_", "t", "o", "n", "n", "e", "s">>, row_sums(df, Indices(df, <<"p", "r", "o", "d", "u", "c", "t", "i", "o", "n", "_", "t", "o", "n", "n", "e", "s">>)))
    ELSE set_column(df, <<"p", "r", "o", "d", "u", "c", "t", "i", "o", "n", "_", "t", "o", "n", "n", "e", "s">>,
                    to_numeric_series(Series(df, <<"p", "r", "o", "d", "u", "c", "t", "i", "o", "n", "_", "t", "o", "n", "n", "e", "s">>)))

\* lines 32-33, on a single year column
agriculture_year(df) ==
    IF HasColumn(df, <<"y", "e", "a", "r">>)
    THEN set_column(df, <<"y", "e", "a", "r">>, to_numeric_series(Series(df, <<"y", "e", "a", "r">>)))
    ELSE df

\* lines 34-36
agriculture_required(df) ==
    fill_missing(df, <<<<"s", "t", "a", "t", "e">>, <<"y", "e", "a", "r">>, <<"c", "r", "o", "p">>, <<"p", "r", "o", "d", "u", "c", "t", "i", "o", "n", "_", "t", "o", "n", "n", "e", "s">>>>, RawNone)

\* lines 37-38, on a single state and a single crop column
agriculture_state_crop(df, keeps_na) ==
    set_column(
        set_column(df, <<"s", "t", "a", "t", "e">>,
                   [i \in 1..Len(df.rows) |-> state_cell(Series(df, <<"s", "t", "a", "t", "e">>)[i], keeps_na)]),
        <<"c", "r", "o", "p">>,
        [i \in 1..Len(df.rows) |-> crop_cell(Series(df, <<"c", "r", "o", "p">>)[i], keeps_na)])

\* lines 39-43
agriculture_output(df) ==
    Ok(select_columns(fill_missing(df, AGRICULTURE_COLS, RawNone), AGRICULTURE_COLS))

\* lines 32-43 after the production step: pd.to_numeric of two year columns
\* raises TypeError, .str of two state or two crop columns AttributeError
agriculture_rest(df, keeps_na) ==
    IF CountColumns(df, <<"y", "e", "a", "r">>) > 1 THEN Raise("TypeError")
    ELSE IF CountColumns(df, <<"s", "t", "a", "t", "e">>) > 1 \/ CountColumns(df, <<"c", "r", "o", "p">>) > 1
    THEN Raise("AttributeError")
    ELSE agriculture_output(
            agriculture_state_crop(agriculture_required(agriculture_year(df)), keeps_na))

normalize_agriculture(df, keeps_na) ==
    agriculture_rest(
        agriculture_production(agriculture_renamed(agriculture_lowered(df))),
        keeps_na)

NormalizeAgriculture ==
    /\ call.op = "normalize_agriculture"
    /\ result' = normalize_agriculture(call.df, call.keeps_na)
    /\ UNCHANGED <<evidence_items, norm, now, args, aggregate, crops_df, rain_df, call>>

----------------------------------------------------------------------------
(* app/normalize.py : normalize_rainfall                                   *)

IsWordChar(ch) == IsLetter(ch) \/ IsDigitChar(ch) \/ ch = "_"

\* re.search(r'\brain\b', text): `rain` with no word character on either side
HasWordRain(text) ==
    \E i \in 1..(Len(text) - 3) :
        /\ SubSeq(text, i, i + 3) = <<"r", "a", "i", "n">>
        /\ (i = 1 \/ ~IsWordChar(text[i - 1]))
        /\ (i + 3 = Len(text) \/ ~IsWordChar(text[i + 4]))

\* series.astype(str).str.extract(r"(\d{4})") on one text: the first four
\* digits in a row, NaN without any
extract_year(text) ==
    LET starts == {i \in 1..(Len(text) - 3) : isdigit(SubSeq(text, i, i + 3))}
    IN IF starts = {} THEN RawNaN
       ELSE LET i == CHOOSE i \in starts : \A h \in starts : i <= h
            IN RawStr(SubSeq(text, i, i + 3))

\* str(x) of a float with one decimal place
float_text(c) ==
    CASE c.d = 1 -> Decimal(c.n) \o <<".", "0">>
      [] c.d = 2 -> Decimal(c.n \div 2) \o <<".", "5">>

\* astype(str) followed by the extraction, on one value; with keeps_na a
\* missing value stays missing
extracted_cell(c, keeps_na) ==
    IF IsMissing(c) /\ keeps_na THEN RawNaN
    ELSE IF c.t = "float" THEN extract_year(float_text(c))
    ELSE extract_year(str(c))

extracted_years(cells, keeps_na) ==
    [i \in 1..Len(cells) |-> extracted_cell(cells[i], keeps_na)]

\* yrs.notna().any()
AnyYear(yrs) == \E i \in 1..Len(yrs) : ~IsMissing(yrs[i])

\* lines 84-90
TN_SUBS ==
    <<<<"k", "a", "r", "u", "r">>, <<"a", "r", "a", "v", "a", "k", "u", "r", "i", "c", "h", "i">>, <<"p", "a", "r", "a", "m", "a", "t", "h", "i">>, <<"a", "n", "a", "i", "p", "a", "l", "y", "a", "m">>, <<"k", "u", "l", "i", "t", "h", "a", "l", "a", "i">>,
      <<"t", "h", "o", "g", "a", "i", "m", "a", "l", "a", "i">>, <<"k", "a", "d", "a", "v", "u", "r">>, <<"p", "a", "l", "a", "v", "i", "d", "u", "t", "h", "i">>, <<"m", "a", "y", "a", "n", "u", "r">>, <<"p", "a", "n", "c", "h", "a", "p", "a", "t", "t", "i">>>>

station_to_state(s) ==
    IF \E k \in 1..Len(TN_SUBS) : Contains(lower(s), TN_SUBS[k])
    THEN <<"T", "a", "m", "i", "l", " ", "N", "a", "d", "u">> ELSE <<"U", "n", "k", "n", "o", "w", "n">>

\* str.replace(pat, '', flags=re.IGNORECASE): every occurrence of the
\* literal pat, whatever its case, is removed, left to right
RECURSIVE remove_ignorecase(_, _)
remove_ignorecase(text, pat) ==
    IF text = <<>> THEN text
    ELSE IF StartsWith(lower(text), pat)
    THEN remove_ignorecase(SubSeq(text, Len(pat) + 1, Len(text)), pat)
    ELSE <<Head(text)>> \o remove_ignorecase(Tail(text), pat)

\* lines 58-60
station_name(c) ==
    strip(replace_char(
        remove_ignorecase(remove_ignorecase(c, <<"a", "c", "t", "u", "a", "l", "_", "r", "a", "i", "n", "f", "a", "l", "l", "_", "i", "n", "_">>), <<"_", "i", "n", "_", "m", "m">>),
        "_", " "))

\* line 52
IsStationColumn(c) ==
    \/ (Contains(lower(c), <<"a", "c", "t", "u", "a", "l">>) /\ Contains(lower(c), <<"r", "a", "i", "n">>))
    \/ StartsWith(lower(c), <<"a", "c", "t", "u", "a", "l", "_", "r", "a", "i", "n", "f", "a", "l", "l">>)

station_cols_orig(df) ==
    SelectSeq(df.columns, LAMBDA c : IsStationColumn(c))

id_vars(df) == SelectSeq(df.columns, LAMBDA c : ~IsStationColumn(c))

\* line 56: df.melt, one row per station column and original row, station
\* columns outermost
melt(df, id_labels, station_labels) ==
    LET ids == SelectedIndices(df, id_labels)
        stations == SelectedIndices(df, station_labels)
        n == Len(df.rows)
    IN RawFrame([j \in 1..Len(ids) |-> df.columns[ids[j]]] \o <<<<"s", "t", "a", "t", "i", "o", "n">>, <<"r", "a", "i", "n", "_", "m", "m">>>>,
                [r \in 1..(Len(stations) * n) |->
                    LET s == stations[((r - 1) \div n) + 1]
                        i == ((r - 1) % n) + 1
                    IN [j \in 1..Len(ids) |-> df.rows[i][ids[j]]]
                         \o <<RawStr(df.columns[s]), df.rows[i][s]>>])

\* lines 62-70: the id_var whose trimmed lower-case name is the first of
\* the candidates that any id_var has; None without one
period_col(ids, cands) ==
    LET named(k) == {j \in 1..Len(ids) : lower(strip(ids[j])) = cands[k]}
        hits == {k \in 1..Len(cands) : named(k) # {}}
    IN IF hits = {} THEN None
       ELSE LET k == CHOOSE k \in hits : \A h \in hits : k <= h
            IN Some(ids[CHOOSE j \in named(k) : \A h \in named(k) : j <= h])

\* line 64
WIDE_CANDIDATES == <<<<"m", "o", "n", "t", "h">>, <<"p", "e", "r", "i", "o", "d">>, <<"p", "e", "r", "o", "i", "d">>, <<"m", "o", "n">>>>

\* lines 71-74
wide_period_year(long, ids, keeps_na) ==
    IF period_col(ids, WIDE_CANDIDATES) = None THEN long
    ELSE LET yrs == extracted_years(Series(long, period_col(ids, WIDE_CANDIDATES)[1]),
                                    keeps_na)
         IN IF AnyYear(yrs) THEN set_column(long, <<"y", "e", "a", "r">>, to_numeric_series(yrs))
            ELSE long

\* long['year'].isna().all()
AllMissing(cells) == \A i \in 1..Len(cells) : IsMissing(cells[i])

\* lines 76-81: the first id_var, left to right, that yields a year
wide_fallback_year(long, ids, keeps_na) ==
    IF HasColumn(long, <<"y", "e", "a", "r">>) /\ ~AllMissing(Series(long, <<"y", "e", "a", "r">>)) THEN long
    ELSE LET yields == {j \in 1..Len(ids) :
                           AnyYear(extracted_years(Series(long, ids[j]), keeps_na))}
         IN IF yields = {} THEN long
            ELSE LET j == CHOOSE j \in yields : \A h \in yields : j <= h
                 IN set_column(long, <<"y", "e", "a", "r">>,
                               to_numeric_series(
                                   extracted_years(Series(long, ids[j]), keeps_na)))

\* lines 58-60, 92-93
wide_station_state(long) ==
    LET named == set_column(long, <<"s", "t", "a", "t", "i", "o", "n">>,
                     [i \in 1..Len(long.rows) |->
                         RawStr(station_name(Series(long, <<"s", "t", "a", "t", "i", "o", "n">>)[i].v))])
        placed == set_column(named, <<"s", "t", "a", "t", "e">>,
                     [i \in 1..Len(named.rows) |->
                         RawStr(station_to_state(Series(named, <<"s", "t", "a", "t", "i", "o", "n">>)[i].v))])
    IN set_column(placed, <<"r", "a", "i", "n", "_", "m", "m">>, to_numeric_series(Series(placed, <<"r", "a", "i", "n", "_", "m", "m">>)))

\* the characters of the model's state names in code point order
CharOrder == <<" ">> \o DigitChars \o UpperChars \o <<"_">> \o LowerChars

CharCode(ch) == CHOOSE i \in 1..Len(CharOrder) : CharOrder[i] = ch

\* str < str
RECURSIVE TextLess(_, _)
TextLess(x, y) ==
    IF y = <<>> THEN FALSE
    ELSE IF x = <<>> THEN TRUE
    ELSE IF Head(x) # Head(y) THEN CharCode(Head(x)) < CharCode(Head(y))
    ELSE TextLess(Tail(x), Tail(y))

\* the order of two year values in the sorted group keys
YearOrder(c) == IF c.t = "str" THEN TextValue(c.v) ELSE c.n

GroupKeyLess(h, k) ==
    \/ TextLess(h[1].v, k[1].v)
    \/ (h[1] = k[1] /\ YearOrder(h[2]) < YearOrder(k[2]))

\* the sorted keys of groupby(['state', 'year']): rows with a missing year
\* form no group
group_keys(long) ==
    LET st == Series(long, <<"s", "t", "a", "t", "e">>)
        yr == Series(long, <<"y", "e", "a", "r">>)
        keys == {<<st[i], yr[i]>> : i \in {i \in 1..Len(long.rows) : ~IsMissing(yr[i])}}
    IN [r \in 1..Cardinality(keys) |->
           CHOOSE k \in keys : Cardinality({h \in keys : GroupKeyLess(h, k)}) = r - 1]

\* ['rain_mm'].mean() of one group: the mean of its numbers, NaN skipped
group_mean(long, key) ==
    LET st == Series(long, <<"s", "t", "a", "t", "e">>)
        yr == Series(long, <<"y", "e", "a", "r">>)
        members == SelectSeq([i \in 1..Len(long.rows) |-> i],
                             LAMBDA i : st[i] = key[1] /\ yr[i] = key[2])
        nums == RowNumbers([m \in 1..Len(members) |-> Series(long, <<"r", "a", "i", "n", "_", "m", "m">>)[members[m]]])
    IN IF nums = <<>> THEN RawNaN
       ELSE RawFrac(FracTimes(FracSum(nums), 1, Len(nums)))

RAINFALL_COLS == <<<<"s", "t", "a", "t", "e">>, <<"d", "i", "s", "t", "r", "i", "c", "t">>, <<"y", "e", "a", "r">>, <<"m", "o", "n", "t", "h">>, <<"r", "a", "i", "n", "f", "a", "l", "l", "_", "m", "m">>>>

\* lines 95-101
wide_aggregate(long) ==
    IF ~HasColumn(long, <<"y", "e", "a", "r">>) THEN Raise("KeyError")
    ELSE LET keys == group_keys(long)
         IN [kind |-> "ok", columns |-> RAINFALL_COLS,
             rows |-> [r \in 1..Len(keys) |->
                         <<keys[r][1], RawNA, keys[r][2], RawNA, group_mean(long, keys[r])>>]]

wide_years(long, ids, keeps_na) ==
    wide_fallback_year(wide_period_year(long, ids, keeps_na), ids, keeps_na)

\* lines 53-101: melt refuses a column already called rain_mm, and an
\* id_var called station leaves two station columns, whose .str raises
normalize_rainfall_wide(df, keeps_na) ==
    IF HasColumn(df, <<"r", "a", "i", "n", "_", "m", "m">>) THEN Raise("ValueError")
    ELSE IF HasColumn(df, <<"s", "t", "a", "t", "i", "o", "n">>) THEN Raise("AttributeError")
    ELSE wide_aggregate(wide_station_state(
            wide_years(melt(df, id_vars(df), station_cols_orig(df)), id_vars(df), keeps_na)))

\* lines 105-117: the chain of ifs on the trimmed lower-case name, the last
\* one that applies deciding
rainfall_colmap(c) ==
    LET lc == lower(strip(c))
    IN IF \/ HasWordRain(lc)
          \/ Contains(lc, <<"r", "a", "i", "n", "f", "a", "l", "l">>)
          \/ (EndsWith(lc, <<"_", "m", "m">>) /\ Contains(lc, <<"r", "a", "i", "n">>))
       THEN Some(<<"r", "a", "i", "n", "f", "a", "l", "l", "_", "m", "m">>)
       ELSE IF Contains(lc, <<"m", "o", "n", "t", "h">>) /\ ~Contains(lc, <<"m", "o", "n", "t", "h", " ", "o", "f">>) THEN Some(<<"m", "o", "n", "t", "h">>)
       ELSE IF lc \in {<<"y", "e", "a", "r">>, <<"y", "y", "y", "y">>} THEN Some(<<"y", "e", "a", "r">>)
       ELSE IF Contains(lc, <<"d", "i", "s", "t", "r", "i", "c", "t">>) THEN Some(<<"d", "i", "s", "t", "r", "i", "c", "t">>)
       ELSE IF Contains(lc, <<"s", "t", "a", "t", "e">>) THEN Some(<<"s", "t", "a", "t", "e">>)
       ELSE None

\* line 118
rainfall_renamed(df) ==
    rename_columns(df, [j \in 1..Len(df.columns) |-> rainfall_colmap(df.columns[j])])

\* line 120: the labels with `rain` in them, a repeated label once per column
rain_cols(df) == SelectSeq(df.columns, LAMBDA c : Contains(lower(c), <<"r", "a", "i", "n">>))

\* lines 121-124: several rain columns are coerced and averaged row-wise,
\* a single one is coerced
rainfall_measure(df) ==
    IF Len(rain_cols(df)) > 1
    THEN set_column(df, <<"r", "a", "i", "n", "f", "a", "l", "l", "_", "m", "m">>, row_means(df, SelectedIndices(df, rain_cols(df))))
    ELSE IF Len(rain_cols(df)) = 1
    THEN set_column(df, <<"r", "a", "i", "n", "f", "a", "l", "l", "_", "m", "m">>, to_numeric_series(Series(df, rain_cols(df)[1])))
    ELSE df

\* lines 131-138 from candidate k on: the first of peroid, period, month,
\* mon that is a column and yields a year; two columns with the candidate's
\* label have no .str
RECURSIVE long_candidate_year(_, _, _)
long_candidate_year(df, k, keeps_na) ==
    LET cands == <<<<"p", "e", "r", "o", "i", "d">>, <<"p", "e", "r", "i", "o", "d">>, <<"m", "o", "n", "t", "h">>, <<"m", "o", "n">>>>
    IN IF k > Len(cands) THEN [kind |-> "none"]
       ELSE IF ~HasColumn(df, cands[k]) THEN long_candidate_year(df, k + 1, keeps_na)
       ELSE IF CountColumns(df, cands[k]) > 1 THEN Raise("AttributeError")
       ELSE IF AnyYear(extracted_years(Series(df, cands[k]), keeps_na))
       THEN Ok(set_column(df, <<"y", "e", "a", "r">>,
                  to_numeric_series(extracted_years(Series(df, cands[k]), keeps_na))))
       ELSE long_candidate_year(df, k + 1, keeps_na)

\* lines 140-146 from column j on: the first column, left to right, that
\* yields a year
RECURSIVE long_any_year(_, _, _)
long_any_year(df, j, keeps_na) ==
    IF j > Len(df.columns) THEN Ok(df)
    ELSE IF CountColumns(df, df.columns[j]) > 1 THEN Raise("AttributeError")
    ELSE IF AnyYear(extracted_years(ColumnCells(df, j), keeps_na))
    THEN Ok(set_column(df, <<"y", "e", "a", "r">>,
               to_numeric_series(extracted_years(ColumnCells(df, j), keeps_na))))
    ELSE long_any_year(df, j + 1, keeps_na)

\* lines 125-146: pd.to_numeric of two year columns raises TypeError
rainfall_year(df, keeps_na) ==
    IF CountColumns(df, <<"y", "e", "a", "r">>) > 1 THEN Raise("TypeError")
    ELSE IF HasColumn(df, <<"y", "e", "a", "r">>)
    THEN Ok(set_column(df, <<"y", "e", "a", "r">>, to_numeric_series(Series(df, <<"y", "e", "a", "r">>))))
    ELSE IF long_candidate_year(df, 1, keeps_na).kind = "none"
    THEN long_any_year(df, 1, keeps_na)
    ELSE long_candidate_year(df, 1, keeps_na)

\* lines 147-155 on the frame the year step left
rainfall_output(df, keeps_na) ==
    LET req == fill_missing(df, <<<<"s", "t", "a", "t", "e">>, <<"y", "e", "a", "r">>, <<"r", "a", "i", "n", "f", "a", "l", "l", "_", "m", "m">>>>, RawNA)
    IN IF CountColumns(req, <<"s", "t", "a", "t", "e">>) > 1 THEN Raise("AttributeError")
       ELSE Ok(select_columns(
                  fill_missing(
                      set_column(req, <<"s", "t", "a", "t", "e">>,
                          [i \in 1..Len(req.rows) |->
                              state_cell(Series(req, <<"s", "t", "a", "t", "e">>)[i], keeps_na)]),
                      RAINFALL_COLS, RawNA),
                  RAINFALL_COLS))

rainfall_after_year(r, keeps_na) ==
    IF r.kind = "raise" THEN r
    ELSE rainfall_output(RawFrame(r.columns, r.rows), keeps_na)

\* lines 104-155
normalize_rainfall_long(df, keeps_na) ==
    rainfall_after_year(rainfall_year(rainfall_measure(rainfall_renamed(df)), keeps_na),
                        keeps_na)

normalize_rainfall(df, keeps_na) ==
    IF station_cols_orig(df) # <<>> THEN normalize_rainfall_wide(df, keeps_na)
    ELSE normalize_rainfall_long(df, keeps_na)

NormalizeRainfall ==
    /\ call.op = "normalize_rainfall"
    /\ result' = normalize_rainfall(call.df, call.keeps_na)
    /\ UNCHANGED <<evidence_items, norm, now, args, aggregate, crops_df, rain_df, call>>

----------------------------------------------------------------------------
(* qa_engine.py : _load_rain_df                                            *)
(*                                                                         *)
(* `df` is what _read_csv returned for the rainfall file; `station_file`   *)
(* is None when data/station_to_state.csv cannot be read, else Some of its *)
(* rows [station_substring, state].                                        *)

\* line 49
SAMPLE_RAIN ==
    [kind |-> "ok", columns |-> <<<<"s", "t", "a", "t", "e">>, <<"y", "e", "a", "r">>, <<"a", "v", "g", "_", "a", "n", "n", "u", "a", "l", "_", "r", "a", "i", "n", "f", "a", "l", "l">>>>,
     rows |-> <<<<RawStr(<<"S", "t", "a", "t", "e", "_", "X">>), RawInt(2020), RawInt(800)>>>>]

\* line 55, on the trimmed lower-case name
IsLoadStationColumn(c) ==
    LET lc == lower(strip(c))
    IN \/ (Contains(lc, <<"a", "c", "t", "u", "a", "l">>) /\ Contains(lc, <<"r", "a", "i", "n">>))
       \/ StartsWith(lc, <<"a", "c", "t", "u", "a", "l", "_", "r", "a", "i", "n", "f", "a", "l", "l">>)

\* lines 85-94: the dict built from the file's rows, a repeated key keeping
\* its place and taking the later value
RECURSIVE read_station_map(_, _)
read_station_map(file_rows, station_map) ==
    IF file_rows = <<>> THEN station_map
    ELSE LET k == lower(strip(Head(file_rows).station_substring))
             v == strip(Head(file_rows).state)
             at == {i \in 1..Len(station_map) : station_map[i].sub = k}
         IN read_station_map(Tail(file_rows),
                IF k = <<>> THEN station_map
                ELSE IF at # {}
                THEN [i \in 1..Len(station_map) |->
                         IF i \in at THEN [sub |-> k, state |-> v] ELSE station_map[i]]
                ELSE Append(station_map, [sub |-> k, state |-> v]))

station_map_of(station_file) ==
    IF station_file = None THEN <<>> ELSE read_station_map(station_file[1], <<>>)

\* lines 96-107
load_station_to_state(s, station_map) ==
    LET hits == {i \in 1..Len(station_map) : Contains(lower(s), station_map[i].sub)}
    IN IF hits # {} THEN station_map[CHOOSE i \in hits : \A h \in hits : i <= h].state
       ELSE station_to_state(s)

\* line 65
LOAD_CANDIDATES == <<<<"m", "o", "n", "t", "h">>, <<"p", "e", "r", "o", "i", "d">>, <<"p", "e", "r", "i", "o", "d">>, <<"m", "o", "n">>>>

\* lines 64-82: the years of the first candidate column, whatever they are;
\* without one, of the first id_var that yields a year; else pd.NA
load_year(long, ids, keeps_na) ==
    LET yields == {j \in 1..Len(ids) :
                      AnyYear(extracted_years(Series(long, ids[j]), keeps_na))}
    IN IF period_col(ids, LOAD_CANDIDATES) # None
       THEN set_column(long, <<"y", "e", "a", "r">>,
                to_numeric_series(
                    extracted_years(Series(long, period_col(ids, LOAD_CANDIDATES)[1]),
                                    keeps_na)))
       ELSE IF yields # {}
       THEN set_column(long, <<"y", "e", "a", "r">>,
                to_numeric_series(
                    extracted_years(
                        Series(long, ids[CHOOSE j \in yields : \A h \in yields : j <= h]),
                        keeps_na)))
       ELSE set_scalar(long, <<"y", "e", "a", "r">>, RawNA)

\* lines 60-62, 108-109
load_station_state(long, station_map) ==
    LET named == set_column(long, <<"s", "t", "a", "t", "i", "o", "n">>,
                     [i \in 1..Len(long.rows) |->
                         RawStr(station_name(Series(long, <<"s", "t", "a", "t", "i", "o", "n">>)[i].v))])
        placed == set_column(named, <<"s", "t", "a", "t", "e">>,
                     [i \in 1..Len(named.rows) |->
                         RawStr(load_station_to_state(Series(named, <<"s", "t", "a", "t", "i", "o", "n">>)[i].v,
                                                      station_map))])
    IN set_column(placed, <<"r", "a", "i", "n", "_", "m", "m">>, to_numeric_series(Series(placed, <<"r", "a", "i", "n", "_", "m", "m">>)))

\* .astype(str).str.strip().str.title() on one value
load_state_cell(c, keeps_na) ==
    LET x == astype_str(c, keeps_na)
    IN IF IsMissing(x) THEN x ELSE RawStr(str_title(strip(x.v)))

\* lines 110-114: the state is put in title case after the grouping
load_aggregate(long, keeps_na) ==
    LET keys == group_keys(long)
    IN [kind |-> "ok", columns |-> <<<<"s", "t", "a", "t", "e">>, <<"y", "e", "a", "r">>, <<"a", "v", "g", "_", "a", "n", "n", "u", "a", "l", "_", "r", "a", "i", "n", "f", "a", "l", "l">>>>,
        rows |-> [r \in 1..Len(keys) |->
                    <<load_state_cell(keys[r][1], keeps_na), keys[r][2],
                      group_mean(long, keys[r])>>]]

load_id_vars(df) == SelectSeq(df.columns, LAMBDA c : ~IsLoadStationColumn(c))

load_station_cols(df) == SelectSeq(df.columns, LAMBDA c : IsLoadStationColumn(c))

\* lines 56-114
load_rain_wide(df, station_file, keeps_na) ==
    IF HasColumn(df, <<"r", "a", "i", "n", "_", "m", "m">>) THEN Raise("ValueError")
    ELSE IF HasColumn(df, <<"s", "t", "a", "t", "i", "o", "n">>) THEN Raise("AttributeError")
    ELSE load_aggregate(
            load_station_state(
                load_year(melt(df, load_id_vars(df), load_station_cols(df)),
                          load_id_vars(df), keeps_na),
                station_map_of(station_file)),
            keeps_na)

\* lines 118-126: the column avg_annual_rainfall is taken from; None when
\* there is none
load_rain_source(df) ==
    LET rainy == {j \in 1..Len(df.columns) :
                     /\ Contains(df.columns[j], <<"r", "a", "i", "n">>)
                     /\ df.columns[j] \notin {<<"s", "t", "a", "t", "e">>, <<"d", "i", "s", "t", "r", "i", "c", "t">>}}
    IN IF HasColumn(df, <<"r", "a", "i", "n", "f", "a", "l", "l", "_", "m", "m">>) /\ ~HasColumn(df, <<"a", "v", "g", "_", "a", "n", "n", "u", "a", "l", "_", "r", "a", "i", "n", "f", "a", "l", "l">>)
       THEN Some(<<"r", "a", "i", "n", "f", "a", "l", "l", "_", "m", "m">>)
       ELSE IF HasColumn(df, <<"a", "v", "g", "_", "a", "n", "n", "u", "a", "l", "_", "r", "a", "i", "n", "f", "a", "l", "l">>) THEN Some(<<"a", "v", "g", "_", "a", "n", "n", "u", "a", "l", "_", "r", "a", "i", "n", "f", "a", "l", "l">>)
       ELSE IF rainy # {} THEN Some(df.columns[CHOOSE j \in rainy : \A h \in rainy : j <= h])
       ELSE None

\* lines 127-131, on the frame with its rainfall column
load_rain_rest(df, keeps_na) ==
    IF CountColumns(df, <<"y", "e", "a", "r">>) > 1 THEN Raise("TypeError")
    ELSE IF CountColumns(df, <<"s", "t", "a", "t", "e">>) > 1 THEN Raise("AttributeError")
    ELSE LET numbered == IF HasColumn(df, <<"y", "e", "a", "r">>)
                         THEN set_column(df, <<"y", "e", "a", "r">>, to_numeric_series(Series(df, <<"y", "e", "a", "r">>)))
                         ELSE df
         IN IF HasColumn(numbered, <<"s", "t", "a", "t", "e">>)
            THEN Ok(set_column(numbered, <<"s", "t", "a", "t", "e">>,
                        [i \in 1..Len(numbered.rows) |->
                            load_state_cell(Series(numbered, <<"s", "t", "a", "t", "e">>)[i], keeps_na)]))
            ELSE Ok(numbered)

\* lines 116-131: pd.to_numeric of a repeated label raises TypeError
load_rain_long(df, keeps_na) ==
    IF load_rain_source(df) = None THEN load_rain_rest(df, keeps_na)
    ELSE IF CountColumns(df, load_rain_source(df)[1]) > 1 THEN Raise("TypeError")
    ELSE load_rain_rest(
            set_column(df, <<"a", "v", "g", "_", "a", "n", "n", "u", "a", "l", "_", "r", "a", "i", "n", "f", "a", "l", "l">>,
                       to_numeric_series(Series(df, load_rain_source(df)[1]))),
            keeps_na)

\* _load_rain_df, given what the two files hold
load_rain_df(df, station_file, keeps_na) ==
    IF df.rows = <<>> \/ df.columns = <<>> THEN SAMPLE_RAIN
    ELSE IF load_station_cols(df) # <<>> THEN load_rain_wide(df, station_file, keeps_na)
    ELSE load_rain_long(agriculture_lowered(df), keeps_na)

LoadRain ==
    /\ call.op = "_load_rain_df"
    /\ result' = load_rain_df(call.df, call.station_file, call.keeps_na)
    /\ UNCHANGED <<evidence_items, norm, now, args, aggregate, crops_df, rain_df, call>>

----------------------------------------------------------------------------
(* Bounds and input domains                                                *)

MaxEvidence == 2      \* records in an evidence list
MaxRows == 2          \* rows of a table handed to the four queries together
MaxYears == 2         \* the `years` argument
MaxTopM == 2          \* the `top_m` argument
MaxExtremeRows == 2   \* production rows handed to find_district_extreme
MaxRainRows == 2      \* rainfall rows handed to compare_avg_rainfall_and_top_crops
MaxCropRows == 2      \* production rows handed to compare_avg_rainfall_and_top_crops
MaxPolicyRows == 4    \* production rows handed to policy_arguments_for_crop_promotion
MaxPolicyRain == 2    \* rainfall rows handed to policy_arguments_for_crop_promotion
MaxGenEvidence == 4   \* evidence records handed to the argument generator
MaxTopK == 4          \* the `top_k` argument
MaxRawRows == 2       \* rows of a raw table handed to map_schema
MaxNormRows == 2      \* rows of a raw table handed to a normalizer (long layout)
MaxWideRows == 2      \* rows (periods) of a wide rainfall table
MaxRankEvidence == 4  \* evidence records handed to the pipeline when ranking is examined
MaxRankTopK == 3      \* top_k of those requests
MaxYearRows == 2      \* rows of a rainfall table whose year source is examined
MaxIdEvidence == 4    \* evidence records, some with an id of their own
MaxIdTopK == 2        \* top_k of those requests
MaxTwiceEvidence == 2 \* evidence records normalized and normalized again

States == {"State_X", "State_Y"}
Crops == {"wheat", "rice"}

\* row i of a production table lies in district DistrictNames[i]
DistrictNames == <<"D1", "D2", "D3", "D4", "D5">>

NoCall == [op |-> "none"]

\* evidence records: dates inside a year, inside five years, older, not a
\* calendar day, absent; a score absent, inside and outside [0, 1]
EvidenceDates ==
    {NoDate, StrDate(<<2026, 6, 1>>), StrDate(<<2023, 9, 15>>),
     StrDate(<<2015, 1, 1>>), StrDate(<<2024, 13, 1>>)}

EvidenceRecords ==
    [id : {None}, date : EvidenceDates, score : {None, Some(40), Some(150)},
     trust : BOOLEAN, relevance : {None, Some(8), Some(0 - 20)}]

Today == ToOrdinal(<<2026, 11, 2>>)

NoTables == crops_df = EmptyFrame /\ rain_df = EmptyFrame
NoArguments == args = <<>> /\ aggregate = NoResult
NoEvidence == evidence_items = <<>> /\ norm = <<>> /\ now = Today /\ NoArguments

InitEvidence ==
    /\ evidence_items \in SeqsUpTo(EvidenceRecords, MaxEvidence)
    /\ norm = <<>>
    /\ now = Today
    /\ NoArguments
    /\ NoTables
    /\ call = NoCall
    /\ result = NoResult

NextEvidence == NormalizeEvidence

SpecEvidence == InitEvidence /\ [][NextEvidence]_vars

\* production tables over the given cells, district by position
CropTables(states, crops, yearCells, productionCells, maxRows) ==
    UNION {[1..k -> [state : states, crop : crops, year : yearCells,
                     production : productionCells]] : k \in 0..maxRows}

WithDistricts(t) ==
    Frame([i \in 1..Len(t) |->
             [state |-> t[i].state, district |-> DistrictNames[i], crop |-> t[i].crop,
              year |-> t[i].year, production |-> t[i].production]])

RainTables(states, yearCells, rainCells, maxRows) ==
    {Frame(t) : t \in UNION {[1..k -> [state : states, year : yearCells,
                                       avg_annual_rainfall : rainCells]] : k \in 0..maxRows}}

\* The request being served: the query the caller selected and its arguments
\* (app.py lines 114-175 dispatch on the selected question).
CompareCalls ==
    [op : {"compare_avg_rainfall_and_top_crops"}, state_x : States, state_y : States,
     years : 1..MaxYears, top_m : 1..MaxTopM]

ExtremeCalls ==
    [op : {"find_district_extreme"}, state_x : States, state_y : States, crop : Crops]

TrendCalls ==
    [op : {"trend_and_correlation"}, region : States, crop : Crops, years : 1..MaxYears]

PolicyCalls ==
    [op : {"policy_arguments_for_crop_promotion"}, region : States, crop_a : Crops,
     crop_b : Crops, years : 1..MaxYears]

Compare ==
    /\ call.op = "compare_avg_rainfall_and_top_crops"
    /\ compare_avg_rainfall_and_top_crops(call.state_x, call.state_y, call.years, call.top_m)

Extreme ==
    /\ call.op = "find_district_extreme"
    /\ find_district_extreme(call.state_x, call.state_y, call.crop)

Trend ==
    /\ call.op = "trend_and_correlation"
    /\ trend_and_correlation(call.region, call.crop, call.years)

Policy ==
    /\ call.op = "policy_arguments_for_crop_promotion"
    /\ policy_arguments_for_crop_promotion(call.region, call.crop_a, call.crop_b, call.years)

\* the four queries together: small tables of one state, and the column-less
\* frame of a failed load
Init ==
    /\ crops_df \in {EmptyFrame} \cup
          {WithDistricts(t) : t \in CropTables({"State_X"}, Crops, {Num(2019), Num(2020)},
                                               {Num(100), Num(150)}, MaxRows)}
    /\ rain_df \in {EmptyFrame} \cup
          RainTables({"State_X"}, {Num(2019), Num(2020)}, {Num(600), Num(800)}, MaxRows)
    /\ NoEvidence
    /\ call \in CompareCalls \cup ExtremeCalls \cup TrendCalls \cup PolicyCalls
    /\ result = NoResult

Next == Compare \/ Extreme \/ Trend \/ Policy

Spec == Init /\ [][Next]_vars

----------------------------------------------------------------------------
(* A caller that keeps its tables across requests (the Streamlit session   *)
(* state of app.py lines 55-60 and 136-137): text year columns as read     *)
(* from a CSV whose year field is not purely numeric.                      *)

Y2019 == <<2, 0, 1, 9>>
Y2020 == <<2, 0, 2, 0>>
Y2018_19 == <<2, 0, 1, 8, Hyphen, 1, 9>>

SnapshotCalls ==
    {c \in CompareCalls \cup ExtremeCalls : c.state_x = "State_X" /\ c.state_y = "State_Y"}

InitSnapshot ==
    /\ crops_df \in
          {WithDistricts(t) : t \in CropTables(States, {"wheat"},
                                               {Str(Y2019), Str(Y2020), Str(Y2018_19), NaN},
                                               {Num(100), Num(300)}, MaxRows)}
    /\ rain_df \in RainTables({"State_X"}, {Str(Y2019), Str(Y2020)}, {Num(800)}, 1)
    /\ NoEvidence
    /\ call \in SnapshotCalls
    /\ result = NoResult

\* the caller selects its next question
Ask ==
    \E c \in SnapshotCalls :
        /\ call' = c
        /\ result' = NoResult
        /\ UNCHANGED <<evidence_items, norm, now, args, aggregate, crops_df, rain_df>>

NextSnapshot == Ask \/ Compare \/ Extreme

SpecSnapshot == InitSnapshot /\ [][NextSnapshot]_vars

----------------------------------------------------------------------------
(* find_district_extreme on production tables of both states              *)

InitExtreme ==
    /\ crops_df \in
          {WithDistricts(t) : t \in CropTables(States, Crops, {Num(2019), Num(2020), NaN},
                                               {Num(100), Num(300), NaN}, MaxExtremeRows)}
    /\ rain_df = EmptyFrame
    /\ NoEvidence
    /\ call \in ExtremeCalls
    /\ result = NoResult

NextExtreme == Extreme

SpecExtreme == InitExtreme /\ [][NextExtreme]_vars

----------------------------------------------------------------------------
(* compare_avg_rainfall_and_top_crops: rainfall tables with gaps and       *)
(* missing years against a fixed production table, and production tables   *)
(* against a fixed rainfall table                                          *)

FixedCrops ==
    Frame(<<[state |-> "State_X", district |-> "D1", crop |-> "wheat",
             year |-> Num(2019), production |-> Num(100)],
            [state |-> "State_X", district |-> "D2", crop |-> "rice",
             year |-> Num(2021), production |-> Num(300)],
            [state |-> "State_Y", district |-> "D3", crop |-> "wheat",
             year |-> Num(2021), production |-> Num(200)]>>)

FixedRain ==
    Frame(<<[state |-> "State_X", year |-> Num(2021), avg_annual_rainfall |-> Num(800)],
            [state |-> "State_Y", year |-> Num(2021), avg_annual_rainfall |-> Num(600)]>>)

InitCompare ==
    /\ \/ /\ rain_df \in RainTables(States, {Num(2019), Num(2021), NaN},
                                    {Num(600), Num(800)}, MaxRainRows)
          /\ crops_df = FixedCrops
       \/ /\ rain_df = FixedRain
          /\ crops_df \in
                {WithDistricts(t) : t \in CropTables(States, Crops, {Num(2019), Num(2021)},
                                                     {Num(200), Num(300), NaN}, MaxCropRows)}
    /\ NoEvidence
    /\ call \in CompareCalls
    /\ result = NoResult

NextCompare == Compare

SpecCompare == InitCompare /\ [][NextCompare]_vars

----------------------------------------------------------------------------
(* policy_arguments_for_crop_promotion: wheat against rice in one region,  *)
(* several districts reporting the same year                               *)

InitPolicy ==
    /\ crops_df \in
          {WithDistricts(t) : t \in CropTables({"State_X"}, Crops, {Num(2019), Num(2020)},
                                               {Num(100), Num(300)}, MaxPolicyRows)}
    /\ rain_df \in RainTables({"State_X"}, {Num(2019), Num(2020)}, {Num(600), Num(800)},
                              MaxPolicyRain)
    /\ NoEvidence
    /\ call \in {c \in PolicyCalls :
                    c.region = "State_X" /\ c.crop_a = "wheat" /\ c.crop_b = "rice"}
    /\ result = NoResult

NextPolicy == Policy

SpecPolicy == InitPolicy /\ [][NextPolicy]_vars

----------------------------------------------------------------------------
(* The evidence pipeline of app.py lines 96-109 and run_smoke.py lines     *)
(* 13-27: normalize_evidence, generate_policy_argument, provenance_score   *)

SampleHeadline == <<Piece("Production signal from normalized production dataset", 52)>>

GeneratorRecords ==
    [id : {None}, date : {NoDate, StrDate(<<2026, 6, 1>>)},
     score : {None}, trust : {FALSE}, relevance : {None},
     headline : {None, Some(SampleHeadline)}]

GenerateCalls == [op : {"generate_policy_argument"}, top_k : 0..MaxTopK]

InitGenerator ==
    /\ evidence_items \in SeqsUpTo(GeneratorRecords, MaxGenEvidence)
    /\ norm = <<>>
    /\ now = Today
    /\ NoArguments
    /\ NoTables
    /\ call \in GenerateCalls
    /\ result = NoResult

NextGenerator == NormalizeEvidence \/ Generate \/ Aggregate

SpecGenerator == InitGenerator /\ [][NextGenerator]_vars

----------------------------------------------------------------------------
(* map_schema on raw tables of two columns: headers that are aliases, near *)
(* aliases and no aliases; cells that are texts with and without the       *)
(* separator character, an int, its digits as a text, and NaN              *)

SchemaHeaders ==
    {<<<<"S", "t", "a", "t", "e">>, <<"D", "i", "s", "t", "r", "i", "c", "t">>>>, <<<<"S", "t", "a", "t", "e", " ", "N", "a", "m", "e">>, <<"d", "i", "s", "t">>>>, <<<<"S", "t", "a", "t", "e">>, <<"Y", "e", "a", "r">>>>,
     <<<<"z", "o", "n", "e">>, <<"c", "o", "d", "e">>>>, <<<<"S", "t", "a", "t", "e">>, <<"n">>>>}

SchemaFirstCells == {RawStr(<<"A">>), RawStr(<<"A", "|", "B">>)}

SchemaSecondCells ==
    {RawStr(<<"C">>), RawStr(<<"B", "|", "C">>), RawInt(2020), RawStr(<<"2", "0", "2", "0">>), RawNaN}

\* a column of ints and NaN only is held as float64
AsHeld(df) ==
    LET floats(j) ==
            /\ \A i \in 1..Len(df.rows) : df.rows[i][j].t \in {"int", "nan"}
            /\ \E i \in 1..Len(df.rows) : df.rows[i][j].t = "nan"
    IN RawFrame(df.columns,
                [i \in 1..Len(df.rows) |->
                    [j \in 1..Len(df.columns) |->
                        IF floats(j) /\ df.rows[i][j].t = "int"
                        THEN RawFloat(df.rows[i][j].n)
                        ELSE df.rows[i][j]]])

SchemaFrames ==
    {AsHeld(RawFrame(h, rows)) :
        h \in SchemaHeaders,
        rows \in SeqsUpTo(SchemaFirstCells \X SchemaSecondCells, MaxRawRows)}

SchemaCalls == [op : {"map_schema"}, df : SchemaFrames]

InitSchema ==
    /\ NoEvidence
    /\ NoTables
    /\ call \in SchemaCalls
    /\ result = NoResult

NextSchema == MapSchema

SpecSchema == InitSchema /\ [][NextSchema]_vars

----------------------------------------------------------------------------
(* normalize_agriculture and long-layout normalize_rainfall on raw tables  *)
(* whose headers give one, none or several columns per canonical name      *)

StateCells == {RawStr(<<" ", "g", "o", "a">>), RawNaN, RawNone}
MeasureCells == {RawInt(100), RawStr(<<"2", "5", "0">>), RawStr(<<"n", "/", "a">>), RawNaN}
CropCells == {RawStr(<<"R", "i", "c", "e", " ">>)}
PeriodCells == {RawStr(<<"J", "u", "n", "e", "'", "2", "0", "1", "8">>), RawStr(<<"J", "u", "l", "y", "'", "2", "0", "1", "9">>), RawStr(<<"J", "u", "n", "e">>)}
YearCells == {RawInt(2018), RawInt(2019)}

\* a layout is a sequence of [name, cells]: a header and the values its
\* column may hold
LayoutColumn(name, cells) == [name |-> name, cells |-> cells]

AgricultureLayouts ==
    {<<LayoutColumn(<<"S", "t", "a", "t", "e">>, StateCells), LayoutColumn(<<"P", "r", "o", "d", "u", "c", "t", "i", "o", "n">>, MeasureCells)>>,
     <<LayoutColumn(<<"C", "r", "o", "p">>, CropCells), LayoutColumn(<<"P", "r", "o", "d", "u", "c", "t", "i", "o", "n">>, MeasureCells),
       LayoutColumn(<<"P", "r", "o", "d", "_", "K", "h", "a", "r", "i", "f">>, MeasureCells)>>,
     <<LayoutColumn(<<"S", "t", "a", "t", "e", " ", "N", "a", "m", "e">>, StateCells), LayoutColumn(<<"S", "t", "a", "t", "e", " ", "C", "o", "d", "e">>, {RawInt(30)})>>,
     <<LayoutColumn(<<"D", "i", "s", "t", "r", "i", "c", "t">>, {RawStr(<<"P", "u", "n", "e">>)}), LayoutColumn(<<"D", "i", "s", "t", "r", "i", "c", "t", " ", "C", "o", "d", "e">>, {RawInt(7)}),
       LayoutColumn(<<"Y", "e", "a", "r">>, YearCells)>>,
     <<LayoutColumn(<<"Y", "e", "a", "r">>, YearCells), LayoutColumn(<<"Y", "Y", "Y", "Y">>, YearCells)>>}

RainfallLayouts ==
    {<<LayoutColumn(<<"P", "e", "r", "i", "o", "d">>, {RawStr(<<"J", "u", "n", "e", "'", "2", "0", "1", "8">>)}), LayoutColumn(<<"R", "a", "i", "n", "f", "a", "l", "l">>, MeasureCells),
       LayoutColumn(<<"R", "a", "i", "n", "_", "m", "m">>, MeasureCells)>>,
     <<LayoutColumn(<<"S", "t", "a", "t", "e">>, StateCells), LayoutColumn(<<"P", "e", "r", "i", "o", "d">>, PeriodCells),
       LayoutColumn(<<"R", "a", "i", "n", "f", "a", "l", "l">>, {RawInt(100), RawNaN})>>,
     <<LayoutColumn(<<"Y", "e", "a", "r">>, YearCells), LayoutColumn(<<"R", "a", "i", "n", "y", " ", "D", "a", "y", "s">>, {RawInt(12)})>>,
     <<LayoutColumn(<<"S", "t", "a", "t", "e">>, StateCells), LayoutColumn(<<"S", "t", "a", "t", "e", " ", "C", "o", "d", "e">>, {RawInt(30)})>>}

LayoutRows(layout) ==
    {r \in [1..Len(layout) -> UNION {layout[j].cells : j \in 1..Len(layout)}] :
        \A j \in 1..Len(layout) : r[j] \in layout[j].cells}

LayoutFrames(layouts, maxRows) ==
    UNION {{AsHeld(RawFrame([j \in 1..Len(layout) |-> layout[j].name], rows)) :
               rows \in SeqsUpTo(LayoutRows(layout), maxRows)} : layout \in layouts}

NormalizeCalls ==
    [op : {"normalize_agriculture"}, df : LayoutFrames(AgricultureLayouts, MaxNormRows),
     keeps_na : BOOLEAN]
    \cup [op : {"normalize_rainfall"}, df : LayoutFrames(RainfallLayouts, MaxNormRows),
          keeps_na : BOOLEAN]

InitNormalize ==
    /\ NoEvidence
    /\ NoTables
    /\ call \in NormalizeCalls
    /\ result = NoResult

NextNormalize == NormalizeAgriculture \/ NormalizeRainfall

SpecNormalize == InitNormalize /\ [][NextNormalize]_vars

----------------------------------------------------------------------------
(* Wide rainfall tables: a Month column and one column per station, handed *)
(* to normalize_rainfall and read by _load_rain_df, the latter with and    *)
(* without a station mapping file                                          *)

WideLayouts ==
    {<<LayoutColumn(<<"M", "o", "n", "t", "h">>, PeriodCells),
       LayoutColumn(<<"A", "c", "t", "u", "a", "l", "_", "R", "a", "i", "n", "f", "a", "l", "l", "_", "i", "n", "_", "K", "a", "r", "u", "r", "_", "i", "n", "_", "m", "m">>, {RawInt(100), RawNaN}),
       LayoutColumn(<<"A", "c", "t", "u", "a", "l", "_", "R", "a", "i", "n", "f", "a", "l", "l", "_", "i", "n", "_", "M", "a", "y", "a", "n", "u", "r", "_", "i", "n", "_", "m", "m">>, {RawInt(300), RawNaN})>>,
     <<LayoutColumn(<<"M", "o", "n", "t", "h">>, PeriodCells),
       LayoutColumn(<<"A", "c", "t", "u", "a", "l", "_", "R", "a", "i", "n", "f", "a", "l", "l", "_", "i", "n", "_", "K", "a", "r", "u", "r", "_", "i", "n", "_", "m", "m">>, {RawInt(100), RawNaN}),
       LayoutColumn(<<"A", "c", "t", "u", "a", "l", "_", "R", "a", "i", "n", "f", "a", "l", "l", "_", "i", "n", "_", "S", "a", "l", "e", "m", "_", "i", "n", "_", "m", "m">>, {RawInt(300)})>>}

StationFiles ==
    {None, Some(<<[station_substring |-> <<"K", "a", "r", "u", "r", " ">>, state |-> <<"t", "a", "m", "i", "l", " ", "n", "a", "d", "u">>]>>)}

WideCalls ==
    [op : {"normalize_rainfall"}, df : LayoutFrames(WideLayouts, MaxWideRows),
     keeps_na : BOOLEAN]
    \cup [op : {"_load_rain_df"}, df : LayoutFrames(WideLayouts, MaxWideRows),
          station_file : StationFiles, keeps_na : BOOLEAN]

InitWide ==
    /\ NoEvidence
    /\ NoTables
    /\ call \in WideCalls
    /\ result = NoResult

NextWide == NormalizeRainfall \/ LoadRain

SpecWide == InitWide /\ [][NextWide]_vars

----------------------------------------------------------------------------
(* The ranking and selection of generate_policy_argument: evidence whose   *)
(* scores are equal or differ, dated after the epoch, before it, with a    *)
(* text that names no calendar day, or undated                             *)

RankingRecords ==
    [id : {None}, date : {NoDate, StrDate(<<1965, 1, 1>>), StrDate(<<2024, 13, 1>>)},
     score : {None}, trust : {FALSE}, relevance : {None}]
    \cup [id : {None}, date : {StrDate(<<2026, 6, 1>>)}, score : {None, Some(50)},
          trust : {FALSE}, relevance : {None}]
    \cup [id : {None}, date : {NoDate}, score : {Some(70)},
          trust : {FALSE}, relevance : {None}]

RankingCalls == [op : {"generate_policy_argument"}, top_k : 1..MaxRankTopK]

InitRanking ==
    /\ evidence_items \in SeqsUpTo(RankingRecords, MaxRankEvidence)
    /\ norm = <<>>
    /\ now = Today
    /\ NoArguments
    /\ NoTables
    /\ call \in RankingCalls
    /\ result = NoResult

NextRanking == RunPipeline

SpecRanking == InitRanking /\ [][NextRanking]_vars

----------------------------------------------------------------------------
(* Where the year of a rainfall table comes from: tables with an explicit  *)
(* year column, with period columns of several names, or with the year in  *)
(* some other column, in the long and in the wide layout                   *)

KarurColumn == LayoutColumn(<<"A", "c", "t", "u", "a", "l", "_", "R", "a", "i", "n", "f", "a", "l", "l", "_", "i", "n", "_", "K", "a", "r", "u", "r", "_", "i", "n", "_", "m", "m">>, {RawInt(100)})

YearLayouts ==
    {<<LayoutColumn(<<"p", "e", "r", "i", "o", "d">>, {RawStr(<<"J", "u", "n", "e", "'", "2", "0", "1", "8">>)}), LayoutColumn(<<"M", "o", "n", "t", "h">>, {RawStr(<<"J", "u", "l", "y", "'", "2", "0", "1", "9">>)}),
       LayoutColumn(<<"R", "a", "i", "n", "f", "a", "l", "l">>, {RawInt(100)})>>,
     <<LayoutColumn(<<"Y", "e", "a", "r">>, YearCells), LayoutColumn(<<"M", "o", "n", "t", "h">>, {RawStr(<<"J", "u", "l", "y", "'", "2", "0", "1", "9">>), RawStr(<<"J", "u", "n", "e">>)}),
       LayoutColumn(<<"R", "a", "i", "n", "f", "a", "l", "l">>, {RawInt(100)})>>,
     <<LayoutColumn(<<"M", "o", "n", "t", "h">>, {RawStr(<<"J", "u", "n", "e">>)}), LayoutColumn(<<"N", "o", "t", "e">>, {RawStr(<<"e", "s", "t", " ", "2", "0", "1", "8">>), RawNaN}),
       LayoutColumn(<<"R", "a", "i", "n", "f", "a", "l", "l">>, {RawInt(100)})>>,
     <<LayoutColumn(<<"y", "e", "a", "r">>, YearCells), LayoutColumn(<<"M", "o", "n", "t", "h">>, {RawStr(<<"J", "u", "n", "e", "'", "2", "0", "1", "8">>), RawStr(<<"J", "u", "n", "e">>)}),
       KarurColumn>>,
     <<LayoutColumn(<<"M", "o", "n", "t", "h">>, PeriodCells), KarurColumn>>,
     <<LayoutColumn(<<"N", "o", "t", "e">>, {RawStr(<<"e", "s", "t", " ", "2", "0", "1", "8">>)}), LayoutColumn(<<"P", "e", "r", "i", "o", "d">>, PeriodCells), KarurColumn>>}

YearCalls ==
    [op : {"normalize_rainfall"}, df : LayoutFrames(YearLayouts, MaxYearRows),
     keeps_na : BOOLEAN]
    \cup [op : {"_load_rain_df"},
          df : {df \in LayoutFrames(YearLayouts, MaxYearRows) : station_cols_orig(df) # <<>>},
          station_file : {None}, keeps_na : BOOLEAN]

InitYear ==
    /\ NoEvidence
    /\ NoTables
    /\ call \in YearCalls
    /\ result = NoResult

NextYear == NormalizeRainfall \/ LoadRain

SpecYear == InitYear /\ [][NextYear]_vars

----------------------------------------------------------------------------
(* Evidence of which some records bring an id of their own, as when items  *)
(* normalized earlier are handed in again together with new ones           *)

IdRecords ==
    [id : {None, Some(<<"ev", 1>>), Some(<<"ev", 7>>)}, date : {NoDate}, score : {None},
     trust : {FALSE}, relevance : {None}]

IdCalls == [op : {"generate_policy_argument"}, top_k : 1..MaxIdTopK]

InitIds ==
    /\ evidence_items \in SeqsUpTo(IdRecords, MaxIdEvidence)
    /\ norm = <<>>
    /\ now = Today
    /\ NoArguments
    /\ NoTables
    /\ call \in IdCalls
    /\ result = NoResult

NextIds == RunPipeline

SpecIds == InitIds /\ [][NextIds]_vars

----------------------------------------------------------------------------
(* normalize_evidence applied to its own output, at the time of the first  *)
(* call or more than a year later: records with and without an id, a       *)
(* score and a trust flag, dated by a text, by a datetime, or not at all   *)

TwiceRecords ==
    [id : {None, Some(<<"ev", 5>>)},
     date : {NoDate, StrDate(<<2026, 6, 1>>), StrDate(<<2024, 13, 1>>),
             DateTime(ToOrdinal(<<2026, 6, 1>>))},
     score : {None, Some(40)}, trust : BOOLEAN, relevance : {None}]

TwiceCalls == [op : {"normalize_evidence"}, later : {0, 400}]

InitTwice ==
    /\ evidence_items \in SeqsUpTo(TwiceRecords, MaxTwiceEvidence)
    /\ norm = <<>>
    /\ now = Today
    /\ NoArguments
    /\ NoTables
    /\ call \in TwiceCalls
    /\ result = NoResult

NextTwice == NormalizeFirst \/ NormalizeAgain

SpecTwice == InitTwice /\ [][NextTwice]_vars

----------------------------------------------------------------------------
(* Properties                                                              *)

Returned == result.kind = "ok" \/ result.kind = "error"
Answered == result.kind # "none"

\* C1: every item returned by normalize_evidence has a score in [0, 1],
\* whether or not the record already carried a score and whatever its trust,
\* relevance and date.
C1_ScoreWithinUnitInterval ==
    \A i \in 1..Len(norm) : norm[i].score[1] >= 0 /\ norm[i].score[1] <= 100

\* C2: each of the four query functions, handed an empty production table
\* and/or an empty rainfall table, returns an {error: ...} object and never
\* raises.  (find_district_extreme takes the production table only.)
C2_EmptyTablesYieldError ==
    LET emptyInput ==
            \/ crops_df.rows = <<>>
            \/ (call.op # "find_district_extreme" /\ rain_df.rows = <<>>)
    IN (Answered /\ emptyInput) => result.kind = "error"

\* C3: a query call leaves the production and rainfall tables it was handed
\* exactly as they were, so queries against one snapshot do not affect one
\* another.
C3_TablesAreSnapshots ==
    [][crops_df' = crops_df /\ rain_df' = rain_df]_vars

\* the rows of a table, by position, that a predicate on rows picks
RowsWhere(rows, P(_)) == {i \in 1..Len(rows) : P(rows[i])}

\* C4: find_district_extreme takes the single most recent year of the whole
\* production table and, among the rows of exactly that year and the given
\* crop, returns the district of largest production for state_x and the
\* district of smallest production for state_y; a state without such rows
\* gets a null entry, not an error.  (The call raises exactly when the table
\* holds no year, or a selection has rows but no production value at all.)
C4_ExtremeOfMostRecentYear ==
    (call.op = "find_district_extreme" /\ Answered) =>
        LET rows == crops_df.rows
            ys == YearSet(rows)
        IN IF ys = {} THEN result.kind = "raise"
           ELSE
            LET recent == CHOOSE y \in ys : \A z \in ys : z <= y
                Of(state) ==
                    LET P(r) == r.state = state /\ r.crop = call.crop
                                  /\ r.year = Num(recent)
                    IN RowsWhere(rows, P)
                Valued(sel) == {i \in sel : IsNum(rows[i].production)}
                Entry(i) == [k |-> "row", district |-> rows[i].district,
                             production |-> rows[i].production.n, year |-> recent]
                selx == Of(call.state_x)
                sely == Of(call.state_y)
            IN IF (selx # {} /\ Valued(selx) = {}) \/ (sely # {} /\ Valued(sely) = {})
               THEN result.kind = "raise"
               ELSE /\ result.kind = "ok"
                    /\ result.provenance.year = recent
                    /\ selx = {} => result.state_x_max = NoExtreme
                    /\ sely = {} => result.state_y_min = NoExtreme
                    /\ selx # {} =>
                          \E i \in Valued(selx) :
                              /\ result.state_x_max = Entry(i)
                              /\ \A j \in Valued(selx) :
                                    rows[j].production.n <= rows[i].production.n
                    /\ sely # {} =>
                          \E i \in Valued(sely) :
                              /\ result.state_y_min = Entry(i)
                              /\ \A j \in Valued(sely) :
                                    rows[j].production.n >= rows[i].production.n

\* C4 witness: one state asked for both entries, with two districts of
\* different production in the most recent year: the maximum and the minimum
\* are different districts.
C4_Witness ==
    /\ call.op = "find_district_extreme"
    /\ result.kind = "ok"
    /\ result.state_x_max.k = "row"
    /\ result.state_y_min.k = "row"
    /\ result.state_x_max.production > result.state_y_min.production

\* C4 witness of the null entry: state_x has a district, state_y has no row
\* of the crop in the most recent year although it has an older one.
C4_WitnessNull ==
    /\ call.op = "find_district_extreme"
    /\ result.kind = "ok"
    /\ result.state_x_max.k = "row"
    /\ result.state_y_min.k = "none"
    /\ \E i \in 1..Len(crops_df.rows) :
          /\ crops_df.rows[i].state = call.state_y
          /\ crops_df.rows[i].crop = call.crop
          /\ IsNum(crops_df.rows[i].year)
          /\ crops_df.rows[i].year.n < result.provenance.year

\* the rows of the production table that trend_and_correlation is asked about
TrendRows == 
    LET IsC(r) == r.state = call.region /\ r.crop = call.crop
    IN SelectSeq(crops_df.rows, IsC)

\* C5: trend_and_correlation(region, crop, years) works on the `years` most
\* recent distinct years of the production table: rows of an older year add
\* nothing to the returned years, trend_slope or correlation.
C5_TrendUsesYearsWindow ==
    (call.op = "trend_and_correlation" /\ result.kind = "ok") =>
        LET window == Prefix(SortDesc(YearSet(crops_df.rows)), call.years)
            InWindow(r) == YearIsIn(r.year, window)
            recent == [crops_df EXCEPT !.rows = SelectSeq(crops_df.rows, InWindow)]
            onRecent == trend_and_correlation_result(call.region, call.crop, call.years,
                                                     recent, rain_df)
        IN /\ Range(result.years) \subseteq Range(window)
           /\ onRecent.kind = "ok"
           /\ onRecent.trend_slope = result.trend_slope
           /\ onRecent.correlation = result.correlation

\* C6: when production and rainfall of the region overlap in exactly one
\* point, trend_and_correlation returns a null correlation and a null trend
\* slope, and does not crash.  (NaN counts as null here.)
C6_SinglePointIsNull ==
    LET overlap == join_dropna(yearly_production(TrendRows),
                               rain_series(rain_df.rows, call.region))
        IsNull(x) == x.k = "nan" \/ x.k = "none"
    IN (call.op = "trend_and_correlation" /\ Answered /\ Len(overlap) = 1) =>
          /\ result.kind = "ok"
          /\ IsNull(result.correlation)
          /\ IsNull(result.trend_slope)

\* C7: the rainfall side of the join is one value per year of the region, so
\* the returned years are exactly the years present on both sides, each once,
\* ascending; without a common year the result is the 'no overlap' error.
C7_YearsAreTheCommonYears ==
    (call.op = "trend_and_correlation" /\ Answered /\ crops_df.cols /\ rain_df.cols
        /\ TrendRows # <<>>) =>
        LET HasRain(r) == r.state = call.region /\ IsNum(r.avg_annual_rainfall)
            rainYears == YearSet(SelectSeq(rain_df.rows, HasRain))
            common == YearSet(TrendRows) \cap rainYears
        IN IF common = {}
           THEN result = ErrorResult("No overlapping rainfall data for region")
           ELSE result.kind = "ok" /\ result.years = SortAsc(common)

\* sum of f over a finite set of row positions
RECURSIVE SumOver(_, _)
SumOver(S, f) ==
    IF S = {} THEN 0
    ELSE LET i == CHOOSE j \in S : TRUE IN f[i] + SumOver(S \ {i}, f)

\* the production of each row, NaN counting as nothing
ProductionOf(rows) ==
    [i \in 1..Len(rows) |-> IF IsNum(rows[i].production) THEN rows[i].production.n ELSE 0]

\* C8: the window of compare_avg_rainfall_and_top_crops is the `years` most
\* recent distinct non-null years of the rainfall table (most recent data
\* points, not calendar years): min(years, number of distinct years) years in
\* descending order, none older year ranking before a newer one; the rainfall
\* means and the crop totals are taken over exactly that window, and the
\* window is what provenance.years_used reports.
C8_WindowIsMostRecentRainYears ==
    (call.op = "compare_avg_rainfall_and_top_crops" /\ result.kind = "ok") =>
        LET w == result.provenance.years_used
            ys == YearSet(rain_df.rows)
            RainIn(state) ==
                LET P(r) == r.state = state /\ IsNum(r.year) /\ r.year.n \in Range(w)
                IN RowsWhere(rain_df.rows, P)
            Valued(S) == {i \in S : IsNum(rain_df.rows[i].avg_annual_rainfall)}
            rainOf == [i \in 1..Len(rain_df.rows) |->
                         IF IsNum(rain_df.rows[i].avg_annual_rainfall)
                         THEN rain_df.rows[i].avg_annual_rainfall.n ELSE 0]
            MeanIs(m, state) ==
                IF RainIn(state) = {} THEN m = NoFloat
                ELSE IF Valued(RainIn(state)) = {} THEN m = FloatNaN
                ELSE /\ m.k = "num"
                     /\ m.num * Cardinality(Valued(RainIn(state)))
                           = SumOver(RainIn(state), rainOf) * m.den
            CropIn(state, cname) ==
                LET P(r) == r.state = state /\ r.crop = cname /\ IsNum(r.year)
                              /\ r.year.n \in Range(w)
                IN RowsWhere(crops_df.rows, P)
            TotalsAre(list, state) ==
                \A i \in 1..Len(list) :
                    /\ CropIn(state, list[i][1]) # {}
                    /\ list[i][2] = SumOver(CropIn(state, list[i][1]),
                                            ProductionOf(crops_df.rows))
        IN /\ Len(w) = Min(call.years, Cardinality(ys))
           /\ Range(w) \subseteq ys
           /\ \A i \in 1..Len(w) : \A j \in 1..Len(w) : i < j => w[i] > w[j]
           /\ \A y \in ys \ Range(w) : \A z \in Range(w) : y < z
           /\ MeanIs(result.rainfall.x, call.state_x)
           /\ MeanIs(result.rainfall.y, call.state_y)
           /\ TotalsAre(result.top_crops.x, call.state_x)
           /\ TotalsAre(result.top_crops.y, call.state_y)

\* C8 witness: the rainfall table holds more distinct years than asked for,
\* with a gap between them, and state_x has a rainfall row and a production
\* row of the year that falls outside the window.
C8_Witness ==
    /\ call.op = "compare_avg_rainfall_and_top_crops"
    /\ result.kind = "ok"
    /\ Cardinality(YearSet(rain_df.rows)) > call.years
    /\ result.provenance.years_used = <<2021>>
    /\ result.rainfall.x.k = "num"
    /\ result.top_crops.x # <<>>
    /\ \E i \in 1..Len(rain_df.rows) :
          rain_df.rows[i].state = call.state_x /\ rain_df.rows[i].year = Num(2019)
    /\ \E i \in 1..Len(crops_df.rows) :
          crops_df.rows[i].state = call.state_x /\ crops_df.rows[i].year = Num(2019)

\* C9: for each of the two states, top_crops lists that state's crops of the
\* window by summed production, descending, cut to top_m: min(top_m, number
\* of distinct crops in the window) entries, each crop once with its total,
\* no omitted crop with a larger total than a listed one; so with exactly
\* top_m distinct crops all of them are listed, fully ranked.
C9_TopCropsRankedAndTruncated ==
    (call.op = "compare_avg_rainfall_and_top_crops" /\ result.kind = "ok") =>
        LET w == result.provenance.years_used
            CropIn(state, cname) ==
                LET P(r) == r.state = state /\ r.crop = cname /\ IsNum(r.year)
                              /\ r.year.n \in Range(w)
                IN RowsWhere(crops_df.rows, P)
            Total(state, cname) == SumOver(CropIn(state, cname), ProductionOf(crops_df.rows))
            InWindow(state) == {cname \in Range(CropNames) : CropIn(state, cname) # {}}
            Ranked(list, state) ==
                LET listed == {list[i][1] : i \in 1..Len(list)}
                IN /\ Len(list) = Min(call.top_m, Cardinality(InWindow(state)))
                   /\ Cardinality(listed) = Len(list)
                   /\ listed \subseteq InWindow(state)
                   /\ \A i \in 1..Len(list) : list[i][2] = Total(state, list[i][1])
                   /\ \A i \in 1..Len(list) : \A j \in 1..Len(list) :
                         i < j => list[i][2] >= list[j][2]
                   /\ \A cname \in InWindow(state) \ listed :
                         \A i \in 1..Len(list) : Total(state, cname) <= list[i][2]
        IN /\ Ranked(result.top_crops.x, call.state_x)
           /\ Ranked(result.top_crops.y, call.state_y)

\* C9 witness: exactly top_m = 2 distinct crops in the window, both listed,
\* the larger total first although its crop sorts after the other by name.
C9_Witness ==
    /\ call.op = "compare_avg_rainfall_and_top_crops"
    /\ result.kind = "ok"
    /\ call.top_m = 2
    /\ Len(result.top_crops.x) = 2
    /\ result.top_crops.x[1][1] = "wheat"
    /\ result.top_crops.x[1][2] > result.top_crops.x[2][2]

\* C9 witness of the truncation: two crops in the window, top_m = 1, the
\* crop of the larger total is the one listed.
C9_WitnessTruncated ==
    /\ call.op = "compare_avg_rainfall_and_top_crops"
    /\ result.kind = "ok"
    /\ call.top_m = 1
    /\ Len(result.top_crops.x) = 1
    /\ \E i \in 1..Len(crops_df.rows) :
          /\ crops_df.rows[i].state = call.state_x
          /\ crops_df.rows[i].crop # result.top_crops.x[1][1]
          /\ YearIsIn(crops_df.rows[i].year, result.provenance.years_used)
          /\ IsNum(crops_df.rows[i].production)
          /\ crops_df.rows[i].production.n < result.top_crops.x[1][2]

\* C10: every result returned by each of the four query operations carries
\* a provenance map citing the sources and the exact year window (or year)
\* the result was computed from.
\* (Stated for the successful results; an error object carries no provenance
\* at all.)
C10_ProvenanceCitesYearWindow ==
    result.kind = "ok" =>
        /\ "provenance" \in DOMAIN result
        /\ \/ "years_used" \in DOMAIN result.provenance
           \/ "year" \in DOMAIN result.provenance

\* the effect size of candidate `title`, recomputed from the metrics of the
\* two crops
EffectOf(title) ==
    CASE title = "Production trend comparison" ->
           FloatAbs(FloatSub(result.slope.a, result.slope.b))
      [] title = "Rainfall-dependence difference" ->
           FloatAbs(FloatSub(corr_value(result.corr.a.corr), corr_value(result.corr.b.corr)))
      [] title = "Yield variability" ->
           FloatAbs(FloatSub(result.var.a, result.var.b))
      [] title = "Drought-year resilience" ->
           FloatAbs(FloatSub(result.drop.a, result.drop.b))

PolicyTitles ==
    {"Production trend comparison", "Rainfall-dependence difference",
     "Yield variability", "Drought-year resilience"}

\* C11: policy_arguments_for_crop_promotion returns at most 3 arguments, each
\* scored by the absolute difference of the two crops on its metric, in
\* non-increasing effect-size order, and no candidate left out has a larger
\* effect size than one returned.  (Read in the code's favour: an effect size
\* that is NaN is taken to be out of order with nothing.)
C11_TopThreeByEffectSize ==
    (call.op = "policy_arguments_for_crop_promotion" /\ result.kind = "ok") =>
        LET listed == result.arguments
            returned == {listed[i].title : i \in 1..Len(listed)}
        IN /\ Len(listed) <= 3
           /\ Cardinality(returned) = Len(listed)
           /\ returned \subseteq PolicyTitles
           /\ \A i \in 1..Len(listed) : \A j \in 1..Len(listed) :
                 i < j => ~FloatLess(EffectOf(listed[i].title), EffectOf(listed[j].title))
           /\ \A t \in PolicyTitles \ returned : \A i \in 1..Len(listed) :
                 ~FloatLess(EffectOf(listed[i].title), EffectOf(t))

\* the number of distinct years in which a crop has a production row
YearsWithData(crop) ==
    LET Is(r) == r.state = call.region /\ r.crop = crop
                   /\ YearIsIn(r.year, result.provenance.years_used)
    IN Cardinality(YearSet(SelectSeq(crops_df.rows, Is)))

\* C12: every returned argument has confidence min(1.0, 0.5 + 0.5 * coverage)
\* with coverage = (the smaller of the two crops' counts of years with data
\* in the window) / years, a year counted once; so it lies in [0.5, 1.0].
C12_ConfidenceFromYearCoverage ==
    (call.op = "policy_arguments_for_crop_promotion" /\ result.kind = "ok") =>
        LET m == Min(YearsWithData(call.crop_a), YearsWithData(call.crop_b))
            y == call.years
        IN \A i \in 1..Len(result.arguments) :
              LET c == result.arguments[i].confidence
              IN /\ c.num * y = Min(100 * y, 50 * y + 50 * m) * c.den
                 /\ 50 * c.den <= c.num
                 /\ c.num <= 100 * c.den

\* C13: for any evidence list (empty, 1 to 3 items, more than 3 items) and
\* any top_k >= 0, generate_policy_argument returns exactly top_k arguments,
\* each with a non-empty argument text.
C13_ExactlyTopKArguments ==
    (call.op = "generate_policy_argument" /\ result.kind # "none") =>
        /\ result.kind = "ok"
        /\ Len(result.args) = call.top_k
        /\ \A i \in 1..Len(result.args) : TextLen(result.args[i].argument) > 0

\* C13 witness: more than 3 evidence items and top_k = 4, the last slot
\* generated after every item has been cited.
C13_Witness ==
    /\ call.op = "generate_policy_argument"
    /\ call.top_k = 4
    /\ Len(norm) = 4
    /\ result.kind = "ok"
    /\ Len(result.args) = 4
    /\ Len(result.args[2].sources) = 1
    /\ Len(result.args[4].sources) = 3

\* C13 witness of the empty evidence list: two arguments from no evidence.
C13_WitnessEmpty ==
    /\ call.op = "generate_policy_argument"
    /\ call.top_k = 2
    /\ evidence_items = <<>>
    /\ result.kind = "ok"
    /\ Len(result.args) = 2
    /\ result.args[1].sources = <<>>

\* the framing an argument shows: by its title and by its template
ShownSide(a) ==
    IF a.title[1] = Piece("For", 3) /\ a.argument[1] = Piece("Expand program: ", 16)
    THEN "pro"
    ELSE IF a.title[1] = Piece("Against", 7)
              /\ a.argument[1] = Piece("Caution against expansion: ", 27)
    THEN "con"
    ELSE "mixed"

\* C14: the argument in slot i (0-based) is framed pro when i is even and con
\* when i is odd, whatever the evidence; so a call with top_k >= 2 contains
\* both framings.
C14_FramingAlternatesBySlot ==
    (call.op = "generate_policy_argument" /\ result.kind = "ok") =>
        /\ \A i \in 1..Len(result.args) :
              ShownSide(result.args[i]) = (IF (i - 1) % 2 = 0 THEN "pro" ELSE "con")
        /\ call.top_k >= 2 =>
              /\ \E i \in 1..Len(result.args) : ShownSide(result.args[i]) = "pro"
              /\ \E i \in 1..Len(result.args) : ShownSide(result.args[i]) = "con"

\* C14 witness: three slots over two evidence items, framed pro, con, pro,
\* the first and third from the same items in the same order.
C14_Witness ==
    /\ call.op = "generate_policy_argument"
    /\ call.top_k = 3
    /\ Len(norm) = 2
    /\ result.kind = "ok"
    /\ ShownSide(result.args[1]) = "pro"
    /\ ShownSide(result.args[2]) = "con"
    /\ ShownSide(result.args[3]) = "pro"
    /\ result.args[1].sources = result.args[3].sources

\* C15: for every list of arguments, the empty list included,
\* provenance_score returns both `mean` and `weighted`, mean being the
\* arithmetic mean of the arguments' provenance values.
C15_MeanAndWeightedAlways ==
    aggregate.kind = "ok" =>
        /\ aggregate.keys = {"mean", "weighted"}
        /\ args # <<>> =>
              FracTimes(aggregate.mean, Len(args), 1) = FracSum(provenance_values(args))

\* C16: the __row_id of map_schema depends only on the row's canonical
\* values: handing the rows in the opposite order gives every row the
\* identifier it had, and two rows of one output have the same identifier
\* exactly when all their canonical values are equal.
C16_RowIdIsContentChecksum ==
    (call.op = "map_schema" /\ result.kind = "ok") =>
        LET rows == result.rows
            n == Len(rows)
            reordered == map_schema(RawFrame(call.df.columns, Reversed(call.df.rows))).rows
        IN /\ Len(reordered) = n
           /\ \A i \in 1..n : reordered[n + 1 - i].row_id = rows[i].row_id
           /\ \A i \in 1..n : \A j \in 1..n :
                 (rows[i].row_id = rows[j].row_id) <=> (rows[i].values = rows[j].values)

\* the columns of a raw table that a normalizer renames to a canonical name
SourcesOf(df, canon) ==
    {j \in 1..Len(df.columns) :
        IF call.op = "normalize_agriculture"
        THEN agriculture_colmap(lower(strip(df.columns[j]))) = Some(canon)
        ELSE rainfall_colmap(df.columns[j]) = Some(canon)}

\* C17: the output of normalize_agriculture and of normalize_rainfall has
\* exactly the canonical columns, each once and in the fixed order, whatever
\* alias columns the input has, several columns of one canonical name
\* included.
C17_ExactlyCanonicalColumns ==
    (call.op \in {"normalize_agriculture", "normalize_rainfall"} /\ Answered) =>
        /\ result.kind = "ok"
        /\ result.columns = (IF call.op = "normalize_agriculture"
                             THEN AGRICULTURE_COLS ELSE RAINFALL_COLS)

\* C18: in every row output by normalize_agriculture the state is a text,
\* and it is "Unknown" when the input has no state column or the row's state
\* cell is missing.
C18_StateDefaultsToUnknown ==
    (call.op = "normalize_agriculture" /\ result.kind = "ok") =>
        \A i \in 1..Len(result.rows) :
            /\ result.rows[i][1].t = "str"
            /\ (\A j \in SourcesOf(call.df, <<"s", "t", "a", "t", "e">>) : IsMissing(call.df.rows[i][j]))
                  => result.rows[i][1] = RawStr(<<"U", "n", "k", "n", "o", "w", "n">>)

\* C19: when several columns of the input collapse to the measurement field
\* (production_tonnes in normalize_agriculture, rainfall_mm in long-layout
\* normalize_rainfall), a row whose collapsing cells are all numbers after
\* coercion gets their sum as its canonical value.
C19_CollapsedColumnsAreSummed ==
    (call.op \in {"normalize_agriculture", "normalize_rainfall"} /\ result.kind = "ok") =>
        LET field == IF call.op = "normalize_agriculture"
                     THEN <<"p", "r", "o", "d", "u", "c", "t", "i", "o", "n", "_", "t", "o", "n", "n", "e", "s">> ELSE <<"r", "a", "i", "n", "f", "a", "l", "l", "_", "m", "m">>
            src == SortAsc(SourcesOf(call.df, field))
            cells(i) == [k \in 1..Len(src) |-> numeric_cell(call.df.rows[i][src[k]])]
        IN Len(src) > 1 =>
              \A i \in 1..Len(result.rows) :
                  (\A k \in 1..Len(src) : cells(i)[k].t \in {"int", "float"}) =>
                      \A j \in 1..Len(result.columns) :
                          result.columns[j] = field =>
                              /\ result.rows[i][j].t \in {"int", "float"}
                              /\ Frac(result.rows[i][j].n, result.rows[i][j].d)
                                    = FracSum(RowNumbers(cells(i)))

\* the state a station column of a wide table ends up under
StateOfStation(c) ==
    IF call.op = "normalize_rainfall" THEN station_to_state(station_name(c))
    ELSE str_title(strip(load_station_to_state(station_name(c),
                                               station_map_of(call.station_file))))

\* the year of the period of row i of a wide table with a Month column:
\* 0 when the period names no year
YearOfPeriod(df, i) ==
    LET y == extract_year(df.rows[i][Indices(df, <<"M", "o", "n", "t", "h">>)[1]].v)
    IN IF IsMissing(y) THEN 0 ELSE TextValue(y.v)

\* the readings <<station column, row>> of a wide table that have a number,
\* station columns outermost
NumberedReadings(df) ==
    SelectSeq([q \in 1..(Len(df.columns) * Len(df.rows)) |->
                  <<((q - 1) \div Len(df.rows)) + 1, ((q - 1) % Len(df.rows)) + 1>>],
              LAMBDA p : /\ IsStationColumn(df.columns[p[1]])
                         /\ numeric_cell(df.rows[p[2]][p[1]]).t \in {"int", "float"})

\* C20: a wide rainfall table with a period that names a year normalizes to
\* one row per (state, year), and the rainfall of (state, Y) is the mean of
\* the numeric readings of all stations attributed to that state in the
\* periods of year Y, each reading counted once.
C20_WideRainfallIsPooledMean ==
    LET df == call.df
        dated == {i \in 1..Len(df.rows) : YearOfPeriod(df, i) # 0}
        stations == {j \in 1..Len(df.columns) : IsStationColumn(df.columns[j])}
        keys == {<<StateOfStation(df.columns[j]), YearOfPeriod(df, i)>> :
                    j \in stations, i \in dated}
        yearAt == IF call.op = "normalize_rainfall" THEN 3 ELSE 2
        valueAt == IF call.op = "normalize_rainfall" THEN 5 ELSE 3
        keyOf(r) == <<result.rows[r][1].v, result.rows[r][yearAt].n>>
        values(k) ==
            LET picked == SelectSeq(NumberedReadings(df),
                              LAMBDA p : /\ StateOfStation(df.columns[p[1]]) = k[1]
                                         /\ YearOfPeriod(df, p[2]) = k[2])
            IN [m \in 1..Len(picked) |->
                   Frac(numeric_cell(df.rows[picked[m][2]][picked[m][1]]).n, 1)]
    IN (call.op \in {"normalize_rainfall", "_load_rain_df"} /\ Answered /\ dated # {}) =>
          /\ result.kind = "ok"
          /\ Len(result.rows) = Cardinality(keys)
          /\ \A r \in 1..Len(result.rows) :
                /\ keyOf(r) \in keys
                /\ \A q \in 1..Len(result.rows) : keyOf(q) = keyOf(r) => q = r
                /\ result.rows[r][valueAt] =
                      (IF values(keyOf(r)) = <<>> THEN RawNaN
                       ELSE RawFrac(FracTimes(FracSum(values(keyOf(r))), 1,
                                              Len(values(keyOf(r))))))


\* one crop's production rows of the region inside the window of the result
WindowRows(crop) ==
    LET Is(r) == r.state = call.region /\ r.crop = crop
                   /\ YearIsIn(r.year, result.provenance.years_used)
    IN SelectSeq(crops_df.rows, Is)

\* the years in which a crop has production and the region has a rainfall
\* value
OverlapYears(crop) ==
    {y \in YearSet(WindowRows(crop)) :
        \E i \in 1..Len(rain_df.rows) :
            /\ rain_df.rows[i].state = call.region
            /\ rain_df.rows[i].year = Num(y)
            /\ IsNum(rain_df.rows[i].avg_annual_rainfall)}

SentinelsOf(crop, slope, corr, var) ==
    /\ Len(WindowRows(crop)) < 2 => slope = Frac(0, 1) /\ var = Infinity
    /\ Cardinality(OverlapYears(crop)) < 2 => corr.corr.k = "zero" /\ corr.n = 0

\* C21: policy_arguments_for_crop_promotion does not raise on small series,
\* and for each crop: the slope is 0.0 and the variance is infinite when the
\* crop has fewer than 2 points in the window, and the rainfall correlation
\* is 0.0 with n = 0 when fewer than 2 of its years have regional rainfall.
C21_InsufficientDataSentinels ==
    call.op = "policy_arguments_for_crop_promotion" /\ result.kind # "none" =>
        /\ result.kind = "ok"
        /\ SentinelsOf(call.crop_a, result.slope.a, result.corr.a, result.var.a)
        /\ SentinelsOf(call.crop_b, result.slope.b, result.corr.b, result.var.b)


\* two floats are comparable when one is less than the other or they are the
\* same value; NaN is comparable with nothing, itself included
Comparable(x, y) ==
    \/ FloatLess(x, y)
    \/ FloatLess(y, x)
    \/ (x.k # "nan" /\ y.k # "nan" /\ ~FloatLess(x, y) /\ ~FloatLess(y, x))

\* C22: when one or both crops carry the infinite variance of a series with
\* fewer than 2 points, the effect size of the variability candidate is a
\* value comparable with itself and with every other candidate's effect size
\* that is a number, and it is infinite when exactly one crop's variance is
\* (the crop with the infinite variance is the worse one by any margin).
C22_InfiniteVarianceStaysComparable ==
    (/\ call.op = "policy_arguments_for_crop_promotion"
     /\ result.kind = "ok"
     /\ (result.var.a = Infinity \/ result.var.b = Infinity)) =>
        LET e == EffectOf("Yield variability")
        IN /\ Comparable(e, e)
           /\ \A t \in PolicyTitles :
                 EffectOf(t).k # "nan" => Comparable(e, EffectOf(t))
           /\ (result.var.a = Infinity) # (result.var.b = Infinity) => e = Infinity


\* the ranked order of the evidence as the arguments show it: with at most 3
\* items slot 0 cites all of them in ranked order, with more the slots cite
\* unused items in ranked order until every item has been cited
RECURSIVE Concat(_)
Concat(ss) == IF ss = <<>> THEN <<>> ELSE Head(ss) \o Concat(Tail(ss))

CitedOrder ==
    LET all == result.args
        n == Len(norm)
    IN IF n <= 3 THEN all[1].sources
       ELSE Prefix(Concat([i \in 1..Len(all) |-> all[i].sources]), n)

\* the normalized item that has the given id
ItemOf(id) == CHOOSE e \in Range(norm) : e.id = id

\* whether an item carries a date that names a calendar day
HasValidDate(e) == e.date.k = "dt"

\* C23: in the ranked order a higher score comes first; among equal scores a
\* later valid date comes first, and an item without a valid date comes
\* after every item of equal score that has one.
C23_RankedByScoreThenDate ==
    (call.op = "generate_policy_argument" /\ result.kind = "ok" /\ Len(norm) >= 2) =>
        \A i \in 1..Len(CitedOrder) : \A j \in 1..Len(CitedOrder) :
            i < j =>
               LET a == ItemOf(CitedOrder[i])
                   b == ItemOf(CitedOrder[j])
               IN /\ a.score[1] >= b.score[1]
                  /\ (a.score[1] = b.score[1] /\ HasValidDate(a) /\ HasValidDate(b))
                        => a.date.ord >= b.date.ord
                  /\ a.score[1] = b.score[1] => (HasValidDate(b) => HasValidDate(a))


\* item i of the normalized evidence is ranked before item j: by score, then
\* by day (the epoch's for an item without a valid date), then by position
DayOf(e) == IF HasValidDate(e) THEN e.date.ord ELSE EpochDay

RankedBefore(i, j) ==
    \/ norm[i].score[1] > norm[j].score[1]
    \/ /\ norm[i].score[1] = norm[j].score[1]
       /\ \/ DayOf(norm[i]) > DayOf(norm[j])
          \/ (DayOf(norm[i]) = DayOf(norm[j]) /\ i < j)

\* the ids of the normalized evidence in ranked order
RankedIds ==
    [k \in 1..Len(norm) |->
        LET i == CHOOSE i \in 1..Len(norm) :
                    Cardinality({j \in 1..Len(norm) : RankedBefore(j, i)}) = k - 1
        IN norm[i].id]

\* C24: with 1 to 3 evidence items, slot i (0-based) cites all n items, source
\* j (0-based) being ranked item (i + j) mod n; consecutive slots therefore
\* cite different orderings when n >= 2.
C24_SmallEvidenceRotates ==
    (call.op = "generate_policy_argument" /\ result.kind = "ok"
       /\ Len(norm) >= 1 /\ Len(norm) <= 3) =>
        LET n == Len(norm)
        IN /\ \A i \in 0..(call.top_k - 1) :
                 result.args[i + 1].sources
                     = [j \in 1..n |-> RankedIds[((i + j - 1) % n) + 1]]
           /\ n >= 2 => \A i \in 1..(call.top_k - 1) :
                 result.args[i].sources # result.args[i + 1].sources

\* C24 witness: three slots over three items, each slot a different rotation.
C24_Witness ==
    /\ call.op = "generate_policy_argument"
    /\ call.top_k = 3
    /\ Len(norm) = 3
    /\ result.kind = "ok"
    /\ result.args[2].sources
          = <<result.args[1].sources[2], result.args[1].sources[3], result.args[1].sources[1]>>
    /\ result.args[3].sources
          = <<result.args[1].sources[3], result.args[1].sources[1], result.args[1].sources[2]>>
    /\ result.args[1].sources[1] # result.args[1].sources[2]

\* C25: with more than 3 evidence items, slot i (0-based) cites the ranked
\* items 3i + 1 .. 3i + 3 that exist, so no id is cited by two slots while an
\* uncited item remains; a slot that finds every item cited cites the 3
\* top-ranked items.
C25_UnusedFirstThenTopRanked ==
    (call.op = "generate_policy_argument" /\ result.kind = "ok" /\ Len(norm) > 3) =>
        LET n == Len(norm)
        IN \A i \in 0..(call.top_k - 1) :
              /\ 3 * i < n =>
                    /\ result.args[i + 1].sources
                          = SubSeq(RankedIds, 3 * i + 1, Min(3 * i + 3, n))
                    /\ \A h \in 0..(i - 1) :
                          Range(result.args[h + 1].sources)
                              \cap Range(result.args[i + 1].sources) = {}
              /\ 3 * i >= n => result.args[i + 1].sources = SubSeq(RankedIds, 1, 3)

\* C25 witness: four items and three slots: the first cites three, the
\* second the one left, the third the three top-ranked again.
C25_Witness ==
    /\ call.op = "generate_policy_argument"
    /\ call.top_k = 3
    /\ Len(norm) = 4
    /\ result.kind = "ok"
    /\ Len(result.args[1].sources) = 3
    /\ Len(result.args[2].sources) = 1
    /\ result.args[3].sources = result.args[1].sources

\* C26: every argument's sources are ids of the evidence, and its provenance
\* is the arithmetic mean of the scores of the items it cites (0 when it
\* cites none), so it lies in [0, 1] when those scores do.
C26_ProvenanceIsMeanOfCited ==
    (call.op = "generate_policy_argument" /\ result.kind = "ok") =>
        \A i \in 1..Len(result.args) :
            LET a == result.args[i]
                cited == [j \in 1..Len(a.sources) |-> ItemOf(a.sources[j]).score[1]]
            IN /\ \A j \in 1..Len(a.sources) : \E e \in Range(norm) : e.id = a.sources[j]
               /\ Len(a.sources) = Min(3, Len(norm)) \/ Len(norm) > 3
               /\ a.provenance.num * Len(cited) = SumSeq(cited) * a.provenance.den
               /\ a.sources = <<>> => a.provenance = Frac(0, 1)
               /\ (\A j \in 1..Len(cited) : cited[j] >= 0 /\ cited[j] <= 100)
                     => (a.provenance.num >= 0 /\ a.provenance.num <= 100 * a.provenance.den)

\* C26 witness: an argument citing three items whose scores differ, its
\* provenance strictly between the smallest and the largest of them.
C26_Witness ==
    /\ call.op = "generate_policy_argument"
    /\ result.kind = "ok"
    /\ \E i \in 1..Len(result.args) :
          LET a == result.args[i]
          IN /\ Len(a.sources) = 3
             /\ ItemOf(a.sources[1]).score[1] = 70
             /\ ItemOf(a.sources[3]).score[1] = 50
             /\ a.provenance.num > 50 * a.provenance.den
             /\ a.provenance.num < 70 * a.provenance.den


\* the rank (1 = highest) of argument i by provenance, ties by position
ProvenanceRank(vals, i) ==
    1 + Cardinality({j \in 1..Len(vals) : FloatLess(vals[i], vals[j])})
      + Cardinality({j \in 1..(i - 1) : vals[j] = vals[i]})

\* C27: for n >= 1 arguments, weighted = (1/n) * sum of v * (rank of v / n),
\* the ranks 1..n given in descending order of provenance, so the highest
\* provenance has weight 1/n; and weighted <= mean when no value is negative.
C27_WeightedIsRankWeightedMean ==
    (aggregate.kind = "ok" /\ args # <<>>) =>
        LET vals == [i \in 1..Len(args) |-> args[i].provenance]
            n == Len(vals)
        IN /\ "weighted" \in aggregate.keys
           /\ aggregate.weighted
                 = FracTimes(FracSum([i \in 1..n |->
                                        FracTimes(vals[i], ProvenanceRank(vals, i), n)]), 1, n)
           /\ (\A i \in 1..n : vals[i].num >= 0) => ~FloatLess(aggregate.mean, aggregate.weighted)

\* C27 witness: three arguments, the second of lower provenance than the
\* first and the third, and a weighted value strictly below the mean.
C27_Witness ==
    /\ aggregate.kind = "ok"
    /\ Len(args) = 3
    /\ FloatLess(args[2].provenance, args[1].provenance)
    /\ FloatLess(args[2].provenance, args[3].provenance)
    /\ FloatLess(aggregate.weighted, aggregate.mean)


\* the column the year of a rainfall table is to be taken from, 0 when there
\* is none: an explicit year or yyyy column; else the first of month, period,
\* peroid, mon that yields a year; else the first other column, station
\* columns apart, that yields one
ClaimedYearColumn(df) ==
    LET name(j) == lower(strip(df.columns[j]))
        cols == 1..Len(df.columns)
        first(S) == CHOOSE j \in S : \A h \in S : j <= h
        yields(j) == AnyYear(extracted_years(ColumnCells(df, j), FALSE))
        priority == <<<<"m", "o", "n", "t", "h">>, <<"p", "e", "r", "i", "o", "d">>, <<"p", "e", "r", "o", "i", "d">>, <<"m", "o", "n">>>>
        explicit == {j \in cols : name(j) \in {<<"y", "e", "a", "r">>, <<"y", "y", "y", "y">>}}
        named(k) == {j \in cols : name(j) = priority[k] /\ yields(j)}
        present == {k \in 1..Len(priority) : named(k) # {}}
        rest == {j \in cols : ~IsStationColumn(df.columns[j]) /\ yields(j)}
    IN IF explicit # {} THEN first(explicit)
       ELSE IF present # {} THEN first(named(first(present)))
       ELSE IF rest # {} THEN first(rest)
       ELSE 0

\* the year of a cell as a number, 0 when it is missing
YearNumber(c) == IF c.t \in {"int", "float"} THEN c.n ELSE 0

\* the year that column gives row i: the number in an explicit year column,
\* the first run of four digits elsewhere
ClaimedYear(df, i) ==
    LET j == ClaimedYearColumn(df)
    IN IF j = 0 THEN 0
       ELSE IF lower(strip(df.columns[j])) \in {<<"y", "e", "a", "r">>, <<"y", "y", "y", "y">>}
       THEN YearNumber(numeric_cell(df.rows[i][j]))
       ELSE YearNumber(numeric_cell(extracted_cell(df.rows[i][j], FALSE)))

\* C28: the years of a normalized rainfall table are those of the explicit
\* year/yyyy column when the input has one, else of the first of month,
\* period, peroid, mon that yields a year, else of the first remaining column
\* that does: row by row in the long layout, as the set of years of the
\* (state, year) rows in the wide layout.
C28_YearSourcePriority ==
    (call.op \in {"normalize_rainfall", "_load_rain_df"} /\ result.kind = "ok"
       /\ call.df.rows # <<>>) =>
        LET df == call.df
            years == Series(result, <<"y", "e", "a", "r">>)
        IN IF station_cols_orig(df) = <<>>
           THEN \A i \in 1..Len(df.rows) : YearNumber(years[i]) = ClaimedYear(df, i)
           ELSE {YearNumber(years[r]) : r \in 1..Len(years)} \ {0}
                   = {ClaimedYear(df, i) : i \in 1..Len(df.rows)} \ {0}


\* the ids a list of evidence records brings along are pairwise distinct
ExplicitIdsDistinct(items) ==
    \A i \in 1..Len(items) : \A j \in 1..Len(items) :
        (i # j /\ items[i].id # None) => items[i].id # items[j].id

\* C29: when the ids present in the input of normalize_evidence are pairwise
\* distinct, the ids of the normalized items are pairwise distinct; so with
\* more than 3 items the first slots of generate_policy_argument cite every
\* item once before any slot falls back to the top-ranked items.
C29_AssignedIdsNeverCollide ==
    (call.op = "generate_policy_argument" /\ result.kind = "ok"
       /\ ExplicitIdsDistinct(evidence_items)) =>
        /\ \A i \in 1..Len(norm) : \A j \in 1..Len(norm) :
              i # j => norm[i].id # norm[j].id
        /\ (Len(norm) = 4 /\ call.top_k >= 2) =>
              /\ Len(result.args[1].sources) = 3
              /\ Len(result.args[2].sources) = 1
              /\ result.args[2].sources[1] \notin Range(result.args[1].sources)


\* C30: normalize_evidence applied to the list it returned gives that list
\* again, item for item (id, date, score and the fields passed through),
\* whatever the time of the second call; and an item of the first output
\* differs from its input record in id, date and score at most.
C30_NormalizeIsIdempotent ==
    /\ call.op = "returned" =>
          /\ result.kind = "ok"
          /\ Len(result.norm) = Len(norm)
          /\ \A i \in 1..Len(norm) : result.norm[i] = norm[i]
    /\ call.op \in {"normalize_evidence again", "returned"} =>
          /\ Len(norm) = Len(evidence_items)
          /\ \A i \in 1..Len(norm) :
                /\ norm[i].trust = evidence_items[i].trust
                /\ norm[i].relevance = evidence_items[i].relevance

\* C30 witness: two records, the first scored 0.7 for its recent date at the
\* first call, normalized again 400 days later with the same outcome.
C30_Witness ==
    /\ call.op = "returned"
    /\ call.later = 400
    /\ Len(norm) = 2
    /\ evidence_items[1].score = None
    /\ norm[1].score = Some(70)
    /\ result.norm = norm

====
